---- MODULE Spec2Model ----
(***************************************************************************)
(* A model of threed-beam-fea: the element kernel (calcKelem, calcAelem),  *)
(* the global stiffness assembler, the loading of boundary conditions,     *)
(* ties and forces, and the phases of fea::solve.                          *)
(*                                                                         *)
(* Numbers.  The program computes in IEEE doubles.  The model computes in  *)
(* exact arithmetic on the numbers n/d * 2^e, written <<n, d, e>> with n   *)
(* and d odd, d > 0, gcd(n, d) = 1, and zero written <<0, 1, 0>>.  Every   *)
(* number has one such form, so = on the triples is equality of the        *)
(* numbers.  The binary exponent is kept apart so that                     *)
(* std::numeric_limits<double>::epsilon() = 2^-52 is a number of the model *)
(* although TLC's integers have 32 bits.  Rounding error of the doubles is *)
(* not modelled.  The special values of the doubles have denominator 0:    *)
(* NaN is <<0, 0, 0>> and the infinities are <<1, 0, 0>> and <<-1, 0, 0>>. *)
(* The model has one zero, +0.                                             *)
(***************************************************************************)
EXTENDS Integers, Sequences, FiniteSets, TLC

(***************************************************************************)
(* F(a), F(a, b) and F(a, b, c) with the arguments evaluated once, before  *)
(* F is applied.  TLC passes the arguments of an operator unevaluated and  *)
(* may evaluate them again at every use; a variable bound over a set holds *)
(* a value.                                                                *)
(***************************************************************************)
Eval1(F(_), a) == CHOOSE r \in {F(x) : x \in {a}} : TRUE
Eval2(F(_, _), a, b) == CHOOSE r \in {F(x, y) : x \in {a}, y \in {b}} : TRUE
Eval3(F(_, _, _), a, b, c) ==
    CHOOSE r \in {F(x, y, z) : x \in {a}, y \in {b}, z \in {c}} : TRUE

(***************************************************************************)
(* Exact arithmetic                                                        *)
(***************************************************************************)
AbsInt(i) == IF i < 0 THEN -i ELSE i

RECURSIVE Gcd(_, _)
Gcd(a, b) == IF b = 0 THEN a ELSE Eval2(Gcd, b, a % b)

RECURSIVE Pow2(_)
Pow2(k) == IF k = 0 THEN 1 ELSE 2 * Eval1(Pow2, k - 1)

Zero == <<0, 1, 0>>
One == <<1, 1, 0>>
NaN == <<0, 0, 0>>

\* NaN or an infinity, <<1, 0, 0>> or <<-1, 0, 0>>.
Special(a) == a[2] = 0
Sign(a) == IF a[1] > 0 THEN 1 ELSE IF a[1] < 0 THEN -1 ELSE 0

\* The normal form of n/d * 2^e, for d > 0: the fraction is reduced and the
\* factors two of its parts are moved to the exponent.
Norm(n, d, e) ==
    \* The number of factors two of i # 0.
    LET RECURSIVE Twos(_)
        Twos(i) == IF i % 2 = 0 THEN 1 + Eval1(Twos, i \div 2) ELSE 0
    IN
    Eval3(LAMBDA n0, d0, e0 :
              IF n0 = 0 THEN Zero
              ELSE Eval1(LAMBDA g :
                             Eval2(LAMBDA tn, td : <<(n0 \div g) \div Pow2(tn),
                                                     (d0 \div g) \div Pow2(td),
                                                     e0 + tn - td>>,
                                   Twos(n0 \div g), Twos(d0 \div g)),
                         Gcd(AbsInt(n0), d0)),
          n, d, e)

NumOf(i) == Norm(i, 1, 0)
Frac(n, d) == Norm(n, d, 0)

NumNeg(a) == Eval1(LAMBDA x : <<-x[1], x[2], x[3]>>, a)
NumAbs(a) == Eval1(LAMBDA x : <<AbsInt(x[1]), x[2], x[3]>>, a)

\* a + b; for neither zero, over the denominator x[2] * y[2] / g and the
\* smaller exponent e.
NumAdd(a, b) ==
    Eval2(LAMBDA x, y :
              IF x = NaN \/ y = NaN \/ (Special(x) /\ Special(y) /\ x # y) THEN NaN
              ELSE IF Special(x) THEN x
              ELSE IF Special(y) THEN y
              ELSE IF x[1] = 0 THEN y
              ELSE IF y[1] = 0 THEN x
              ELSE Eval2(LAMBDA e, g :
                             Norm(x[1] * Pow2(x[3] - e) * (y[2] \div g)
                                    + y[1] * Pow2(y[3] - e) * (x[2] \div g),
                                  (x[2] \div g) * y[2], e),
                         IF x[3] < y[3] THEN x[3] ELSE y[3], Gcd(x[2], y[2])),
          a, b)

NumSub(a, b) == NumAdd(a, NumNeg(b))

NumMul(a, b) ==
    Eval2(LAMBDA x, y :
              IF x = NaN \/ y = NaN THEN NaN
              ELSE IF Special(x) \/ Special(y)
              THEN IF x = Zero \/ y = Zero THEN NaN
                   ELSE <<Sign(x) * Sign(y), 0, 0>>
              ELSE IF x[1] = 0 \/ y[1] = 0 THEN Zero
              ELSE Eval2(LAMBDA g1, g2 :
                             <<(x[1] \div g1) * (y[1] \div g2),
                               (x[2] \div g2) * (y[2] \div g1), x[3] + y[3]>>,
                         Gcd(AbsInt(x[1]), y[2]), Gcd(AbsInt(y[1]), x[2])),
          a, b)

\* 1 / b; 1 / 0 is +Inf and 1 / Inf is 0.
Reciprocal(b) ==
    Eval1(LAMBDA y : IF y = NaN THEN NaN
                     ELSE IF y = Zero THEN <<1, 0, 0>>
                     ELSE IF Special(y) THEN Zero
                     ELSE <<Sign(y) * y[2], AbsInt(y[1]), -y[3]>>,
          b)

\* a / b; 0 / 0 is NaN.
NumDiv(a, b) == NumMul(a, Reciprocal(b))

\* a > b; false when one of them is NaN.  For both positive it is
\* a[1]*b[2]*2^a[3] > b[1]*a[2]*2^b[3].
NumGt(a, b) ==
    \* x * 2^s > y, for integers x >= 1, y >= 0, s >= 0, without forming x * 2^s.
    LET RECURSIVE ShiftGt(_, _, _)
        ShiftGt(x, s, y) ==
            IF x > y THEN TRUE
            ELSE IF s = 0 THEN FALSE
            ELSE Eval3(ShiftGt, x, s - 1, y \div 2)
    IN
    LET PosGt(p, q) ==
            Eval2(LAMBDA x, y : IF p[3] >= q[3] THEN ShiftGt(x, p[3] - q[3], y)
                                ELSE ~ShiftGt(y, q[3] - p[3], x - 1),
                  p[1] * q[2], q[1] * p[2])
    IN
    Eval2(LAMBDA x, y :
              CASE x = NaN \/ y = NaN -> FALSE
                [] Special(x) \/ Special(y) ->
                       (IF Special(x) THEN 2 * Sign(x) ELSE Sign(x))
                           > (IF Special(y) THEN 2 * Sign(y) ELSE Sign(y))
                [] x[1] > 0 /\ y[1] > 0 -> PosGt(x, y)
                [] x[1] < 0 /\ y[1] < 0 -> PosGt(NumNeg(y), NumNeg(x))
                [] OTHER -> x[1] > y[1],
          a, b)

NumLt(a, b) == NumGt(b, a)

(***************************************************************************)
(* Vectors (Eigen::Vector3d) are triples of numbers; component k of the    *)
(* code, v(k), is v[k + 1].  The 12x12 matrices (LocalMatrix) are          *)
(* functions M[i][j] with i, j in 0..11, as in the code.                   *)
(***************************************************************************)
Vec(x, y, z) == <<NumOf(x), NumOf(y), NumOf(z)>>
VecSub(a, b) ==
    Eval2(LAMBDA u, v : <<NumSub(u[1], v[1]), NumSub(u[2], v[2]), NumSub(u[3], v[3])>>,
          a, b)
VecDivide(a, s) ==
    Eval2(LAMBDA u, t : <<NumDiv(u[1], t), NumDiv(u[2], t), NumDiv(u[3], t)>>, a, s)
Dot(a, b) ==
    Eval2(LAMBDA u, v : NumAdd(NumAdd(NumMul(u[1], v[1]), NumMul(u[2], v[2])),
                               NumMul(u[3], v[3])),
          a, b)
squaredNorm(a) == Dot(a, a)
Cross(a, b) ==
    Eval2(LAMBDA u, v : <<NumSub(NumMul(u[2], v[3]), NumMul(u[3], v[2])),
                          NumSub(NumMul(u[3], v[1]), NumMul(u[1], v[3])),
                          NumSub(NumMul(u[1], v[2]), NumMul(u[2], v[1]))>>,
          a, b)
\* Eigen's norm(), for the vectors whose norm is a number of the model.
VecNorm(a) ==
    \* The square root of a number whose parts are perfect squares.
    LET NumSqrt(a1) ==
            LET ISqrt(n) == CHOOSE r \in 0..n : r * r = n
            IN  Eval1(LAMBDA x : <<ISqrt(x[1]), ISqrt(x[2]), x[3] \div 2>>, a1)
    IN
              NumSqrt(squaredNorm(a))
\* Eigen's normalized() / normalize(): the vector divided by its norm.
normalized(a) == Eval1(LAMBDA u : VecDivide(u, VecNorm(u)), a)

\* norm(n1, n2): the distance of two nodes.
norm(n1, n2) == VecNorm(VecSub(n2, n1))

Idx == 0..11

\* The function on 0..11 with the values F(0), ..., F(11).
Tab12(F(_)) ==
    0 :> F(0) @@ 1 :> F(1) @@ 2 :> F(2) @@ 3 :> F(3) @@ 4 :> F(4) @@ 5 :> F(5) @@
    6 :> F(6) @@ 7 :> F(7) @@ 8 :> F(8) @@ 9 :> F(9) @@ 10 :> F(10) @@ 11 :> F(11)

\* M with the entries of W (a function of <<row, column>>) assigned.
Assign(M, W) ==
    Eval2(LAMBDA m, w : Tab12(LAMBDA i : Tab12(LAMBDA j :
              IF <<i, j>> \in DOMAIN w THEN w[<<i, j>>] ELSE m[i][j])),
          M, W)

\* The matrix product A * B.
MatMul(A, B) ==
    LET RECURSIVE DotRow(_, _, _, _, _)
        DotRow(A1, B1, i, j, k) ==
            IF k > 11 THEN Zero
            ELSE IF (A1[i][k] = Zero /\ ~Special(B1[k][j])) \/ (B1[k][j] = Zero /\ ~Special(A1[i][k]))
            THEN DotRow(A1, B1, i, j, k + 1)
            ELSE NumAdd(NumMul(A1[i][k], B1[k][j]), DotRow(A1, B1, i, j, k + 1))
    IN
    Eval2(LAMBDA m, n : Tab12(LAMBDA i : Tab12(LAMBDA j : DotRow(m, n, i, j, 0))),
          A, B)

\* GlobalStiffAssembler(): all member matrices zero, SparseKelem empty.
NewAssembler ==
    LET ZeroMat == [i \in Idx |-> [j \in Idx |-> Zero]]
    IN
    [Kelem |-> ZeroMat, Klocal |-> ZeroMat, Aelem |-> ZeroMat,
     AelemT |-> ZeroMat, SparseKelem |-> <<>>]

\* LocalZ with the factors of the cross product exchanged.
LocalZFlipped(nx, ny) ==
    Eval1(LAMBDA nz : VecDivide(nz, squaredNorm(nz)), Cross(ny, nx))

\* The local z direction of calcAelem: nx x ny divided by its squared norm.
LocalZ(nx, ny) ==
    Eval1(LAMBDA nz : VecDivide(nz, squaredNorm(nz)), Cross(nx, ny))

\* calcAelem(nx, ny) on the assembler a.
calcAelem(a, nx, ny) ==
    \* The entries of AelemT that calcAelem assigns.
    LET AelemTWrites(nx1, ny1, nz) ==
            <<0, 0>> :> nx1[1] @@
            <<0, 1>> :> ny1[1] @@
            <<0, 2>> :> nz[1] @@
            <<1, 0>> :> nx1[2] @@
            <<1, 1>> :> ny1[2] @@
            <<1, 2>> :> nz[2] @@
            <<2, 0>> :> nx1[3] @@
            <<2, 1>> :> ny1[3] @@
            <<2, 2>> :> nz[3] @@
            <<3, 3>> :> nx1[1] @@
            <<3, 4>> :> ny1[1] @@
            <<3, 5>> :> nz[1] @@
            <<4, 3>> :> nx1[2] @@
            <<4, 4>> :> ny1[2] @@
            <<4, 5>> :> nz[2] @@
            <<5, 3>> :> nx1[3] @@
            <<5, 4>> :> ny1[3] @@
            <<5, 5>> :> nz[3] @@
            <<6, 6>> :> nx1[1] @@
            <<6, 7>> :> ny1[1] @@
            <<6, 8>> :> nz[1] @@
            <<7, 6>> :> nx1[2] @@
            <<7, 7>> :> ny1[2] @@
            <<7, 8>> :> nz[2] @@
            <<8, 6>> :> nx1[3] @@
            <<8, 7>> :> ny1[3] @@
            <<8, 8>> :> nz[3] @@
            <<9, 9>> :> nx1[1] @@
            <<9, 10>> :> ny1[1] @@
            <<9, 11>> :> nz[1] @@
            <<10, 9>> :> nx1[2] @@
            <<10, 10>> :> ny1[2] @@
            <<10, 11>> :> nz[2] @@
            <<11, 9>> :> nx1[3] @@
            <<11, 10>> :> ny1[3] @@
            <<11, 11>> :> nz[3]
    IN
    \* The entries of Aelem that calcAelem assigns.
    LET AelemWrites(nx1, ny1, nz) ==
            <<0, 0>> :> nx1[1] @@
            <<0, 1>> :> nx1[2] @@
            <<0, 2>> :> nx1[3] @@
            <<1, 0>> :> ny1[1] @@
            <<1, 1>> :> ny1[2] @@
            <<1, 2>> :> ny1[3] @@
            <<2, 0>> :> nz[1] @@
            <<2, 1>> :> nz[2] @@
            <<2, 2>> :> nz[3] @@
            <<3, 3>> :> nx1[1] @@
            <<3, 4>> :> nx1[2] @@
            <<3, 5>> :> nx1[3] @@
            <<4, 3>> :> ny1[1] @@
            <<4, 4>> :> ny1[2] @@
            <<4, 5>> :> ny1[3] @@
            <<5, 3>> :> nz[1] @@
            <<5, 4>> :> nz[2] @@
            <<5, 5>> :> nz[3] @@
            <<6, 6>> :> nx1[1] @@
            <<6, 7>> :> nx1[2] @@
            <<6, 8>> :> nx1[3] @@
            <<7, 6>> :> ny1[1] @@
            <<7, 7>> :> ny1[2] @@
            <<7, 8>> :> ny1[3] @@
            <<8, 6>> :> nz[1] @@
            <<8, 7>> :> nz[2] @@
            <<8, 8>> :> nz[3] @@
            <<9, 9>> :> nx1[1] @@
            <<9, 10>> :> nx1[2] @@
            <<9, 11>> :> nx1[3] @@
            <<10, 9>> :> ny1[1] @@
            <<10, 10>> :> ny1[2] @@
            <<10, 11>> :> ny1[3] @@
            <<11, 9>> :> nz[1] @@
            <<11, 10>> :> nz[2] @@
            <<11, 11>> :> nz[3]
    IN
    Eval1(LAMBDA nz : [a EXCEPT !.Aelem = Assign(a.Aelem, AelemWrites(nx, ny, nz)),
                                !.AelemT = Assign(a.AelemT, AelemTWrites(nx, ny, nz))],
          LocalZ(nx, ny))

\* The entries of Klocal that calcKelem assigns.
KlocalWrites(EA, EIz, EIy, GJ, length) ==
    LET tmpEA  == NumDiv(EA, length)
        tmpGJ  == NumDiv(GJ, length)
        tmp12z == NumDiv(NumMul(NumOf(12), EIz), NumMul(NumMul(length, length), length))
        tmp6z  == NumDiv(NumMul(NumOf(6), EIz), NumMul(length, length))
        tmp1z  == NumDiv(EIz, length)
        tmp12y == NumDiv(NumMul(NumOf(12), EIy), NumMul(NumMul(length, length), length))
        tmp6y  == NumDiv(NumMul(NumOf(6), EIy), NumMul(length, length))
        tmp1y  == NumDiv(EIy, length)
    IN  <<0, 0>> :> tmpEA @@
        <<0, 6>> :> NumNeg(tmpEA) @@
        <<1, 1>> :> tmp12z @@
        <<1, 5>> :> tmp6z @@
        <<1, 7>> :> NumNeg(tmp12z) @@
        <<1, 11>> :> tmp6z @@
        <<2, 2>> :> tmp12y @@
        <<2, 4>> :> NumNeg(tmp6y) @@
        <<2, 8>> :> NumNeg(tmp12y) @@
        <<2, 10>> :> NumNeg(tmp6y) @@
        <<3, 3>> :> tmpGJ @@
        <<3, 9>> :> NumNeg(tmpGJ) @@
        <<4, 2>> :> NumNeg(tmp6y) @@
        <<4, 4>> :> NumMul(NumOf(4), tmp1y) @@
        <<4, 8>> :> tmp6y @@
        <<4, 10>> :> NumMul(NumOf(2), tmp1y) @@
        <<5, 1>> :> tmp6z @@
        <<5, 5>> :> NumMul(NumOf(4), tmp1z) @@
        <<5, 7>> :> NumNeg(tmp6z) @@
        <<5, 11>> :> NumMul(NumOf(2), tmp1z) @@
        <<6, 0>> :> NumNeg(tmpEA) @@
        <<6, 6>> :> tmpEA @@
        <<7, 1>> :> NumNeg(tmp12z) @@
        <<7, 5>> :> NumNeg(tmp6z) @@
        <<7, 7>> :> tmp12z @@
        <<7, 11>> :> NumNeg(tmp6z) @@
        <<8, 2>> :> NumNeg(tmp12y) @@
        <<8, 4>> :> tmp6y @@
        <<8, 8>> :> tmp12y @@
        <<8, 10>> :> tmp6y @@
        <<9, 3>> :> NumNeg(tmpGJ) @@
        <<9, 9>> :> tmpGJ @@
        <<10, 2>> :> NumNeg(tmp6y) @@
        <<10, 4>> :> NumMul(NumOf(2), tmp1y) @@
        <<10, 8>> :> tmp6y @@
        <<10, 10>> :> NumMul(NumOf(4), tmp1y) @@
        <<11, 1>> :> tmp6z @@
        <<11, 5>> :> NumMul(NumOf(2), tmp1z) @@
        <<11, 7>> :> NumNeg(tmp6z) @@
        <<11, 11>> :> NumMul(NumOf(4), tmp1z)

\* calcKelem with the two bending stiffnesses exchanged.
calcKelemSwapsPlanes(a, i, job) ==
    LET p      == job.props[i + 1]
        nn1    == job.elems[i + 1][1]
        nn2    == job.elems[i + 1][2]
        length == norm(job.nodes[nn1 + 1], job.nodes[nn2 + 1])
        nx     == normalized(VecSub(job.nodes[nn2 + 1], job.nodes[nn1 + 1]))
        ny     == normalized(p.normal_vec)
        a1     == [a EXCEPT !.Klocal =
                      Assign(a.Klocal, KlocalWrites(p.EA, p.EIy, p.EIz, p.GJ, length))]
    IN  Eval1(LAMBDA a2 : [a2 EXCEPT !.Kelem =
                                 MatMul(MatMul(a2.AelemT, a2.Klocal), a2.Aelem)],
              Eval2(LAMBDA x, y : calcAelem(a1, x, y), nx, ny))

\* calcKelem with the rotation applied on one side only.
calcKelemOneSided(a, i, job) ==
    LET p      == job.props[i + 1]
        nn1    == job.elems[i + 1][1]
        nn2    == job.elems[i + 1][2]
        length == norm(job.nodes[nn1 + 1], job.nodes[nn2 + 1])
        nx     == normalized(VecSub(job.nodes[nn2 + 1], job.nodes[nn1 + 1]))
        ny     == normalized(p.normal_vec)
        a1     == [a EXCEPT !.Klocal =
                      Assign(a.Klocal, KlocalWrites(p.EA, p.EIz, p.EIy, p.GJ, length))]
    IN  Eval1(LAMBDA a2 : [a2 EXCEPT !.Kelem = MatMul(a2.AelemT, a2.Klocal)],
              Eval2(LAMBDA x, y : calcAelem(a1, x, y), nx, ny))

\* The local x axis and the normalised normal of element i, as calcKelem
\* passes them to calcAelem.
ElemAxes(i, job) ==
    LET nn1 == job.elems[i + 1][1]
        nn2 == job.elems[i + 1][2]
    IN  <<normalized(VecSub(job.nodes[nn2 + 1], job.nodes[nn1 + 1])),
          normalized(job.props[i + 1].normal_vec)>>

\* calcKelem that adds the element's matrix to the Kelem it finds.
calcKelemAdds(a, i, job) ==
    LET p      == job.props[i + 1]
        nn1    == job.elems[i + 1][1]
        nn2    == job.elems[i + 1][2]
        length == norm(job.nodes[nn1 + 1], job.nodes[nn2 + 1])
        nx     == ElemAxes(i, job)[1]
        ny     == ElemAxes(i, job)[2]
        a1     == [a EXCEPT !.Klocal =
                      Assign(a.Klocal, KlocalWrites(p.EA, p.EIz, p.EIy, p.GJ, length))]
    IN  Eval1(LAMBDA a2 : [a2 EXCEPT !.Kelem =
                              Eval1(LAMBDA K : [r \in Idx |-> [c \in Idx |->
                                                   NumAdd(a.Kelem[r][c], K[r][c])]],
                                    MatMul(MatMul(a2.AelemT, a2.Klocal), a2.Aelem))],
              Eval2(LAMBDA x, y : calcAelem(a1, x, y), nx, ny))

\* calcKelem(i, job) on the assembler a; element i of the code is elems[i + 1].
calcKelem(a, i, job) ==
    LET p      == job.props[i + 1]
        nn1    == job.elems[i + 1][1]
        nn2    == job.elems[i + 1][2]
        length == norm(job.nodes[nn1 + 1], job.nodes[nn2 + 1])
        nx     == ElemAxes(i, job)[1]
        ny     == ElemAxes(i, job)[2]
        a1     == [a EXCEPT !.Klocal =
                      Assign(a.Klocal, KlocalWrites(p.EA, p.EIz, p.EIy, p.GJ, length))]
    IN  Eval1(LAMBDA a2 : [a2 EXCEPT !.Kelem =
                                 MatMul(MatMul(a2.AelemT, a2.Klocal), a2.Aelem)],
              Eval2(LAMBDA x, y : calcAelem(a1, x, y), nx, ny))

(***************************************************************************)
(* Sparse matrices (Eigen::SparseMatrix<double>).  A matrix is its         *)
(* dimensions and its stored coefficients, a function of <<row, column>>.  *)
(* The right-hand side, a one-column sparse matrix, keeps its stored       *)
(* entries <<row, value>> in storage order, because insert() can store a   *)
(* row twice.                                                              *)
(***************************************************************************)
NUM_DOFS == 6

\* std::numeric_limits<double>::epsilon(), 2^-52.
DBL_EPSILON == <<1, 1, -52>>

\* SparseMat(rows, cols): an empty matrix, in compressed mode.
SparseMat(rows, cols) ==
    [rows |-> rows, cols |-> cols, coeff |-> <<>>, compressed |-> TRUE]
Coeff(K, r, c) == IF <<r, c>> \in DOMAIN K.coeff THEN K.coeff[<<r, c>>] ELSE Zero

\* The coefficients acc with the triplets lo..hi added, in order; the range
\* is halved to keep the evaluation shallow.
RECURSIVE SumTriplets(_, _, _, _)
SumTriplets(acc, trips, lo, hi) ==
    IF lo > hi THEN acc
    ELSE IF lo = hi
    THEN LET rc == <<trips[lo][1], trips[lo][2]>>
         IN  IF rc \in DOMAIN acc
             THEN [acc EXCEPT ![rc] = NumAdd(@, trips[lo][3])]
             ELSE acc @@ (rc :> trips[lo][3])
    ELSE Eval1(LAMBDA left : SumTriplets(left, trips, (lo + hi) \div 2 + 1, hi),
               SumTriplets(acc, trips, lo, (lo + hi) \div 2))

\* Kg.setFromTriplets(begin, end): the coefficients of equal coordinates add up.
setFromTriplets(K, trips) ==
    [K EXCEPT !.coeff = SumTriplets(<<>>, trips, 1, Len(trips)), !.compressed = TRUE]

\* Kg.insert(r, c) = v, for a coordinate not stored yet.
insert(K, r, c, v) ==
    [K EXCEPT !.coeff = @ @@ (<<r, c>> :> v), !.compressed = FALSE]

sparseView(M) ==
    \* Kelem.sparseView(): the coefficients of Kelem that are not zero, column by
    \* column (the storage order of a column-major sparse matrix), as
    \* <<row, column, value>>.
    LET RECURSIVE SparseViewRange(_, _, _)
        SparseViewRange(M1, lo, hi) ==
            IF lo = hi
            THEN LET row == lo % 12
                     col == lo \div 12
                 IN  IF M1[row][col] = Zero THEN <<>> ELSE <<<<row, col, M1[row][col]>>>>
            ELSE LET mid == (lo + hi) \div 2
                 IN  SparseViewRange(M1, lo, mid) \o SparseViewRange(M1, mid + 1, hi)
    IN
                 Eval1(LAMBDA m : SparseViewRange(m, 0, 143), M)

\* ScatterTriplet with the columns 6..11 placed at 6 * nn2 + col, six too far.
ScatterTripletNoShift(nn1, nn2, row, col, value) ==
    IF row < 6
    THEN IF col < 6
         THEN <<NUM_DOFS * nn1 + row, NUM_DOFS * nn1 + col, value>>
         ELSE <<NUM_DOFS * nn1 + row, NUM_DOFS * nn2 + col, value>>
    ELSE IF col < 6
         THEN <<NUM_DOFS * (nn2 - 1) + row, NUM_DOFS * nn1 + col, value>>
         ELSE <<NUM_DOFS * (nn2 - 1) + row, NUM_DOFS * nn2 + col, value>>

\* The triplet that operator() pushes for the coefficient (row, col) of the
\* element (nn1, nn2).  The code computes the indices in unsigned arithmetic;
\* for nn2 = 0 the intermediate nn2 - 1 wraps, and the sum, taken modulo 2^32,
\* is the integer computed here.
ScatterTriplet(nn1, nn2, row, col, value) ==
    IF row < 6
    THEN IF col < 6
         THEN <<NUM_DOFS * nn1 + row, NUM_DOFS * nn1 + col, value>>
         ELSE <<NUM_DOFS * nn1 + row, NUM_DOFS * (nn2 - 1) + col, value>>
    ELSE IF col < 6
         THEN <<NUM_DOFS * (nn2 - 1) + row, NUM_DOFS * nn1 + col, value>>
         ELSE <<NUM_DOFS * (nn2 - 1) + row, NUM_DOFS * (nn2 - 1) + col, value>>

\* TieTriplets with the rotational constant taken from dof 4 on.
TieTripletsDofSlip(tie, j) ==
    LET nn1 == tie.node_number_1
        nn2 == tie.node_number_2
        spring_constant == IF j <= 3 THEN tie.lmult ELSE tie.rmult
    IN  <<<<NUM_DOFS * nn1 + j, NUM_DOFS * nn1 + j, spring_constant>>,
          <<NUM_DOFS * nn2 + j, NUM_DOFS * nn2 + j, spring_constant>>,
          <<NUM_DOFS * nn1 + j, NUM_DOFS * nn2 + j, NumNeg(spring_constant)>>,
          <<NUM_DOFS * nn2 + j, NUM_DOFS * nn1 + j, NumNeg(spring_constant)>>>>

\* The four triplets of dof j of one tie.
TieTriplets(tie, j) ==
    LET nn1 == tie.node_number_1
        nn2 == tie.node_number_2
        spring_constant == IF j < 3 THEN tie.lmult ELSE tie.rmult
    IN  <<<<NUM_DOFS * nn1 + j, NUM_DOFS * nn1 + j, spring_constant>>,
          <<NUM_DOFS * nn2 + j, NUM_DOFS * nn2 + j, spring_constant>>,
          <<NUM_DOFS * nn1 + j, NUM_DOFS * nn2 + j, NumNeg(spring_constant)>>,
          <<NUM_DOFS * nn2 + j, NUM_DOFS * nn1 + j, NumNeg(spring_constant)>>>>

RECURSIVE TieLoop(_, _, _)
TieLoop(trips, tieList, i) ==
    IF i >= Len(tieList) THEN trips
    ELSE LET t == tieList[i + 1]
         IN  TieLoop(trips \o TieTriplets(t, 0) \o TieTriplets(t, 1) \o TieTriplets(t, 2)
                           \o TieTriplets(t, 3) \o TieTriplets(t, 4) \o TieTriplets(t, 5),
                     tieList, i + 1)

\* loadTies(triplets, ties): the triplets with those of the ties appended.
loadTies(trips, tieList) == TieLoop(trips, tieList, 0)

\* The element loop of operator(), from element i on: the assembler and the
\* triplets after it.
RECURSIVE ElemLoop(_, _, _, _)
ElemLoop(a, trips, i, j) ==
    IF i >= Len(j.elems) THEN [asm |-> a, triplets |-> trips]
    ELSE Eval2(LAMBDA a1, old :
                   Eval1(LAMBDA sp :
                             ElemLoop([a1 EXCEPT !.SparseKelem = sp],
                                      old \o [k \in 1..Len(sp) |->
                                          ScatterTriplet(j.elems[i + 1][1],
                                                         j.elems[i + 1][2],
                                                         sp[k][1], sp[k][2], sp[k][3])],
                                      i + 1, j),
                         sparseView(a1.Kelem)),
               calcKelem(a, i, j), trips)

\* GlobalStiffAssembler::operator()(Kg, job, ties): the assembler, the
\* triplets and Kg after the call.
Assemble(a, K, j, tieList) ==
    Eval1(LAMBDA r :
              Eval1(LAMBDA trips : [asm |-> r.asm, triplets |-> trips,
                                    Kg |-> setFromTriplets(K, trips)],
                    loadTies(r.triplets, tieList)),
          ElemLoop(a, <<>>, 0, j))

\* SparseMat force_vec(size, 1): a one-column matrix is its stored entries
\* <<row, value>> in storage order.
SparseVec(rows) == [rows |-> rows, cols |-> 1, entries |-> <<>>]

insertRow(fv, row, v) ==
    \* force_vec.insert(row, 0) = v: the entry goes behind the stored entries of
    \* rows <= row, also when the row is stored already.
    LET RECURSIVE InsertAt(_, _, _, _)
        InsertAt(entries, row1, v1, p) ==
            IF p > 0 /\ entries[p][1] > row1 THEN InsertAt(entries, row1, v1, p - 1)
            ELSE SubSeq(entries, 1, p) \o <<<<row1, v1>>>> \o SubSeq(entries, p + 1, Len(entries))
    IN
                         [fv EXCEPT !.entries = InsertAt(@, row, v, Len(@))]

Stored(fv, row) == \E k \in 1..Len(fv.entries) : fv.entries[k][1] = row

\* The dense vector Eigen makes of the right-hand side (dst.setZero(), then
\* dst(row) = value for every stored entry in storage order): entry `row`.
Dense(fv, row) ==
    LET ks == {k \in 1..Len(fv.entries) : fv.entries[k][1] = row}
    IN  IF ks = {} THEN Zero
        ELSE fv.entries[CHOOSE k \in ks : \A m \in ks : m <= k][2]

RECURSIVE BCLoop(_, _, _, _, _)
BCLoop(K, fv, bcs, num_nodes, i) ==
    IF i >= Len(bcs) THEN [Kg |-> K, force_vec |-> fv]
    ELSE LET bc == bcs[i + 1]
             bc_idx == NUM_DOFS * bc.node + bc.dof
             global_add_idx == NUM_DOFS * num_nodes
             K1 == insert(insert(K, bc_idx, global_add_idx + i, One),
                          global_add_idx + i, bc_idx, One)
             f1 == IF NumGt(NumAbs(bc.value), DBL_EPSILON)
                   THEN insertRow(fv, global_add_idx + i, bc.value)
                   ELSE fv
         IN  BCLoop(K1, f1, bcs, num_nodes, i + 1)

\* loadBCs(Kg, force_vec, BCs, num_nodes).
loadBCs(K, fv, bcs, num_nodes) == BCLoop(K, fv, bcs, num_nodes, 0)

\* loadForces that leaves a row alone once it is stored.
RECURSIVE ForceLoopKeepsFirst(_, _, _)
ForceLoopKeepsFirst(fv, fs, i) ==
    IF i >= Len(fs) THEN fv
    ELSE LET idx == NUM_DOFS * fs[i + 1].node + fs[i + 1].dof
         IN  ForceLoopKeepsFirst(IF Stored(fv, idx) THEN fv
                                 ELSE insertRow(fv, idx, fs[i + 1].value), fs, i + 1)

loadForcesKeepsFirst(fv, fs) == ForceLoopKeepsFirst(fv, fs, 0)

RECURSIVE ForceLoop(_, _, _)
ForceLoop(fv, fs, i) ==
    IF i >= Len(fs) THEN fv
    ELSE ForceLoop(insertRow(fv, NUM_DOFS * fs[i + 1].node + fs[i + 1].dof,
                             fs[i + 1].value), fs, i + 1)

\* loadForces(force_vec, forces).
loadForces(fv, fs) == ForceLoop(fv, fs, 0)

(***************************************************************************)
(* Eigen::SparseLU in exact arithmetic.  factorize(Kg) eliminates with row *)
(* pivoting and stops with info() = NumericalIssue at a column that has no *)
(* nonzero pivot, which in exact arithmetic happens exactly when Kg is     *)
(* singular; the choice of the pivot does not change the solution, so the  *)
(* model takes the first nonzero entry of the column.                      *)
(***************************************************************************)
\* A function of the model written out, so that it is computed once.
Explicit(f) == f @@ <<>>

\* The dense [K | fv], row i and column j counted from 1.
Augmented(K, fv) ==
    Explicit([i \in 1..K.rows |->
        Explicit([j \in 1..(K.cols + 1) |->
            IF j <= K.cols THEN Coeff(K, i - 1, j - 1) ELSE Dense(fv, i - 1)])])

\* The elimination from column k on; <<>> when a column has no pivot.  The
\* pivot row p of column k is the first row from k on with a nonzero entry
\* there, 0 when there is none.
RECURSIVE Reduce(_, _)
Reduce(rows, k) ==
    \* One column of the elimination: the pivot row p, scaled to pivot 1, goes to
    \* row k and is eliminated from every other row.
    LET EliminateColumn(rows1, k1, p) ==
            \* row - c * prow, on the entries prow stores.
            LET RowElim(row, c, prow) ==
                    IF c = Zero THEN row
                    ELSE Explicit([j \in 1..Len(row) |->
                             IF prow[j] = Zero THEN row[j] ELSE NumSub(row[j], NumMul(c, prow[j]))])
            IN
            Eval1(LAMBDA prow :
                      Explicit([i \in 1..Len(rows1) |->
                          IF i = k1 THEN prow
                          ELSE IF i = p THEN RowElim(rows1[k1], rows1[k1][k1], prow)
                          ELSE RowElim(rows1[i], rows1[i][k1], prow)]),
                  Eval1(LAMBDA c : Explicit([j \in 1..Len(rows1[p]) |-> NumMul(rows1[p][j], c)]),
                        Reciprocal(rows1[p][k1])))
    IN
    IF k > Len(rows) THEN rows
    ELSE Eval1(LAMBDA p :
                   IF p = 0 THEN <<>>
                   ELSE Eval1(LAMBDA next : Reduce(next, k + 1),
                              EliminateColumn(rows, k, p)),
               LET cand == {i \in k..Len(rows) : rows[i][k] # Zero}
               IN  IF cand = {} THEN 0
                   ELSE CHOOSE i \in cand : \A m \in cand : i <= m)

\* solver.factorize(K): the value of solver.info() after it.
factorize(K) ==
    IF K.rows = 0 \/ Reduce(Augmented(K, SparseVec(K.rows)), 1) # <<>>
    THEN "Success" ELSE "NumericalIssue"

(***************************************************************************)
(* The results of solve.                                                   *)
(***************************************************************************)
\* RoundSmall that compares v itself, not its magnitude.
RoundSmallSigned(v, epsilon) == IF NumLt(v, epsilon) THEN Zero ELSE v

\* std::abs(v) < epsilon ? 0.0 : v
RoundSmall(v, epsilon) == IF NumLt(NumAbs(v), epsilon) THEN Zero ELSE v

\* RoundedTable over all the complete rows of six the vector has, the rows of
\* the Lagrange multipliers included.
RoundedTableWithTail(x, numNodes, epsilon) ==
    Explicit([i \in 1..(Len(x) \div NUM_DOFS) |->
        Explicit([j \in 1..NUM_DOFS |->
            RoundSmall(x[NUM_DOFS * (i - 1) + j], epsilon)])])

\* The |nodes| x 6 table of a vector with 6 * |nodes| rows or more, rounded.
RoundedTable(x, numNodes, epsilon) ==
    Explicit([i \in 1..numNodes |->
        Explicit([j \in 1..NUM_DOFS |->
            RoundSmall(x[NUM_DOFS * (i - 1) + j], epsilon)])])

\* Row `row` of K * x from column c on, over the coefficients K stores.
RECURSIVE RowTimes(_, _, _, _)
RowTimes(K, x, row, c) ==
    IF c >= K.cols THEN Zero
    ELSE IF <<row, c>> \in DOMAIN K.coeff
    THEN NumAdd(NumMul(K.coeff[<<row, c>>], x[c + 1]), RowTimes(K, x, row, c + 1))
    ELSE RowTimes(K, x, row, c + 1)

\* SparseTimes over the coefficients on and right of the diagonal only.
SparseTimesFromDiagonal(K, x) ==
    Explicit([i \in 1..K.rows |-> RowTimes(K, x, i - 1, i - 1)])

\* Kg * dispSparse.
SparseTimes(K, x) == Explicit([i \in 1..K.rows |-> RowTimes(K, x, i - 1, 0)])

\* computeTieForces with the linear constant on every dof.
computeTieForcesLinearOnly(tieList, nodal_displacements) ==
    Explicit([i \in 1..Len(tieList) |->
        Explicit([j \in 1..NUM_DOFS |->
            NumMul(tieList[i].lmult,
                   NumSub(nodal_displacements[tieList[i].node_number_2 + 1][j],
                          nodal_displacements[tieList[i].node_number_1 + 1][j]))])])

\* computeTieForces(ties, nodal_displacements).
computeTieForces(tieList, nodal_displacements) ==
    Explicit([i \in 1..Len(tieList) |->
        LET nn1 == tieList[i].node_number_1
            nn2 == tieList[i].node_number_2
        IN  Explicit([j \in 1..NUM_DOFS |->
                LET spring_constant == IF j - 1 < 3 THEN tieList[i].lmult
                                       ELSE tieList[i].rmult
                    delta1 == nodal_displacements[nn1 + 1][j]
                    delta2 == nodal_displacements[nn2 + 1][j]
                IN  NumMul(spring_constant, NumSub(delta2, delta1))])])

(***************************************************************************)
(* Input data (containers.h, options.h) and the inputs the model explores. *)
(***************************************************************************)
Props(EA, EIz, EIy, GJ, normal_vec) ==
    [EA |-> EA, EIz |-> EIz, EIy |-> EIy, GJ |-> GJ, normal_vec |-> normal_vec]

Elem(node1, node2, props) == [node_numbers |-> <<node1, node2>>, props |-> props]

\* Job(nodes, elems): the elements are split into connectivity and properties.
Job(nodes, elemList) ==
    [nodes |-> nodes,
     elems |-> [i \in 1..Len(elemList) |-> elemList[i].node_numbers],
     props |-> [i \in 1..Len(elemList) |-> elemList[i].props]]

BC(node, dof, value) == [node |-> node, dof |-> dof, value |-> value]
Force(node, dof, value) == [node |-> node, dof |-> dof, value |-> value]
Tie(node_number_1, node_number_2, lmult, rmult) ==
    [node_number_1 |-> node_number_1, node_number_2 |-> node_number_2,
     lmult |-> lmult, rmult |-> rmult]

\* Options(): the defaults.  epsilon is 1e-14 to the precision of the
\* model's numbers, 45 * 2^-52.
DefaultOptions ==
    [epsilon |-> <<45, 1, -52>>, csv_precision |-> 14, csv_delimiter |-> ",",
     save_nodal_displacements |-> FALSE, save_nodal_forces |-> FALSE,
     save_tie_forces |-> FALSE, verbose |-> FALSE, save_report |-> FALSE,
     nodal_displacements_filename |-> "nodal_displacements.csv",
     nodal_forces_filename |-> "nodal_forces.csv",
     tie_forces_filename |-> "tie_forces.csv",
     report_filename |-> "report.txt"]

\* Summary(): every count is zero and every result is empty.
NewSummary ==
    [num_nodes |-> 0, num_elems |-> 0, num_bcs |-> 0, num_forces |-> 0,
     num_ties |-> 0, num_eqns |-> 0,
     nodal_displacements |-> <<>>, nodal_forces |-> <<>>, tie_forces |-> <<>>]

MaxElems == 2
MaxTies == 2
MaxBCs == 8
MaxForces == 2
MaxEqns == 1

\* The contiguous parts of a catalogue of at most max entries, the empty one
\* included, and its parts that start at the first entry.
Windows(cat, max) ==
    {SubSeq(cat, w[1], w[1] + w[2] - 1) :
        w \in {v \in (1..Len(cat)) \X (0..max) : v[1] + v[2] - 1 <= Len(cat)}}
Prefixes(cat, max) == {SubSeq(cat, 1, n) : n \in {m \in 0..max : m <= Len(cat)}}

PropsC == Props(NumOf(6), NumOf(4), NumOf(2), NumOf(3), Vec(0, 1, 0))

\* The nodes of the catalogue up to the last one the elements use.
NodesFor(elemList) ==
    LET used == UNION {{elemList[i].node_numbers[1], elemList[i].node_numbers[2]} :
                       i \in 1..Len(elemList)}
        last == CHOOSE n \in used : \A m \in used : m <= n
    IN  SubSeq(<<Vec(0, 0, 0), Vec(3, 4, 0), Vec(3, 0, 0), Vec(3, 0, 2)>>, 1, last + 1)

\* The jobs on the windows of a catalogue of elements.
Jobs ==
    LET PropsB == Props(NumOf(10), NumOf(1), NumOf(5), NumOf(10), Vec(3, 4, 0))
        ElemCatalog ==
            <<Elem(0, 1, Props(NumOf(6), NumOf(4), NumOf(2), NumOf(3), Vec(0, 0, 2))),
              Elem(1, 2, PropsB), Elem(2, 0, PropsC),
              Elem(0, 2, PropsC), Elem(2, 3, PropsB)>>
    IN  {Job(NodesFor(w), w) : w \in Windows(ElemCatalog, MaxElems) \ {<<>>}}

\* The frame solve is called on: a beam along x and a post along z on its
\* end, and the jobs that grow from the beam.
FrameNodes == <<Vec(0, 0, 0), Vec(2, 0, 0), Vec(2, 0, 2)>>
FrameElems == <<Elem(0, 1, PropsC), Elem(1, 2, PropsC)>>

TieCatalog ==
    <<Tie(0, 1, NumOf(5), NumOf(7)), Tie(1, 0, Frac(1, 2), NumOf(3)),
      Tie(0, 1, NumOf(2), NumOf(2))>>

\* Node 0 clamped (its dof 1 at a prescribed displacement), then two
\* prescribed displacements of node 1.
BCCatalog ==
    <<BC(0, 0, Zero), BC(0, 1, Frac(1, 2)), BC(0, 2, Zero), BC(0, 3, Zero),
      BC(0, 4, Zero), BC(0, 5, Zero), BC(1, 5, DBL_EPSILON),
      BC(1, 2, Frac(-1, 4))>>

OptionsCatalog ==
    {DefaultOptions,
     [DefaultOptions EXCEPT !.epsilon = Frac(1, 8),
                            !.save_nodal_displacements = TRUE,
                            !.save_nodal_forces = TRUE,
                            !.save_tie_forces = TRUE,
                            !.save_report = TRUE]}

(***************************************************************************)
(* The CSVParser (csv_parser.h).  A text is a sequence of characters, each *)
(* a string of length one; a table is a sequence of rows of numbers.  The  *)
(* characters of the model are the digits, the sign, the point, the three  *)
(* separators, the newline and letters; an exponent is a letter here, so   *)
(* strtod stops in front of it.                                            *)
(***************************************************************************)
RECURSIVE Pow10(_)
Pow10(k) == IF k = 0 THEN 1 ELSE 10 * Pow10(k - 1)

\* (unsigned int) x for a double x >= 0: the fraction is cut off.
ToUnsigned(a) ==
    IF a[3] >= 0 THEN (a[1] * Pow2(a[3])) \div a[2]
    ELSE a[1] \div (a[2] * Pow2(-a[3]))

\* The pieces of s between the characters of seps, from position i on, cur
\* being the piece that has begun: n separators make n + 1 pieces, and a
\* piece between two separators that follow each other is empty.  This is
\* what boost::escaped_list_separator does with a line that is not empty
\* when it has no escape and no quote, and what std::getline does to a text.
RECURSIVE Pieces(_, _, _, _)
Pieces(s, seps, i, cur) ==
    IF i > Len(s) THEN <<cur>>
    ELSE IF s[i] \in seps THEN <<cur>> \o Pieces(s, seps, i + 1, <<>>)
    ELSE Pieces(s, seps, i + 1, Append(cur, s[i]))

\* std::strtod(tok, 0): the value of the longest prefix of tok that is a
\* number (a sign, digits, a point, digits); 0 when no prefix is one.  What
\* follows the prefix is dropped, and nothing tells the caller.
strtod(tok) ==
    \* The value of the digits of tok at the positions i..j.
    LET RECURSIVE Decimal(_, _, _)
        Decimal(tok1, i, j) ==
            IF j < i THEN 0
            ELSE 10 * Decimal(tok1, i, j - 1)
                 + (CHOOSE v \in 0..9 :
                        <<"0", "1", "2", "3", "4", "5", "6", "7", "8", "9">>[v + 1] = tok1[j])
    IN
    \* The number of digits of tok from position i on.
    LET RECURSIVE DigitRun(_, _)
        DigitRun(tok1, i) ==
            IF i <= Len(tok1) /\ tok1[i] \in {"0", "1", "2", "3", "4", "5", "6", "7", "8", "9"}
            THEN 1 + DigitRun(tok1, i + 1) ELSE 0
    IN
    LET s  == IF Len(tok) >= 1 /\ tok[1] \in {"-", "+"} THEN 1 ELSE 0
        ni == DigitRun(tok, s + 1)
        nf == IF s + ni + 1 <= Len(tok) /\ tok[s + ni + 1] = "."
              THEN DigitRun(tok, s + ni + 2) ELSE 0
        m  == Decimal(tok, s + 1, s + ni) * Pow10(nf)
                  + Decimal(tok, s + ni + 2, s + ni + 1 + nf)
    IN  IF ni + nf = 0 THEN Zero
        ELSE Frac(IF s = 1 /\ tok[1] = "-" THEN -m ELSE m, Pow10(nf))

\* infile >> data: operator>> on a vector of records takes a record from
\* every line std::getline reads, the empty ones included; getline reads
\* nothing behind the last newline.  A record holds strtod of every token.
ReadRecords(text) ==
    \* The tokens of a line: the tokenizer of operator>> with the separators
    \* ", \t"; an empty line has no token.
    LET Tokens(line) == IF line = <<>> THEN <<>> ELSE Pieces(line, {",", " ", "\t"}, 1, <<>>)
    IN
    Eval1(LAMBDA pieces :
              Eval1(LAMBDA lines :
                        [i \in 1..Len(lines) |->
                            Eval1(LAMBDA toks : [k \in 1..Len(toks) |-> strtod(toks[k])],
                                  Tokens(lines[i]))],
                    IF pieces[Len(pieces)] = <<>>
                    THEN SubSeq(pieces, 1, Len(pieces) - 1) ELSE pieces),
          Pieces(text, {"\n"}, 1, <<>>))

\* CSVParser::parseToVector(filename, data) over the files of d: it throws
\* when the file does not open; the tokenizer has nothing to throw about.
parseToVector(d, filename) ==
    IF filename \notin DOMAIN d THEN [thrown |-> TRUE, data |-> <<>>]
    ELSE [thrown |-> FALSE, data |-> ReadRecords(d[filename])]

\* The decimal digits of n >= 0.
RECURSIVE DigitsOf(_)
DigitsOf(n) ==
    (IF n >= 10 THEN DigitsOf(n \div 10) ELSE <<>>)
        \o <<<<"0", "1", "2", "3", "4", "5", "6", "7", "8", "9">>[(n % 10) + 1]>>

\* output_file << std::fixed << std::setprecision(precision) << v for a
\* finite double v: |v| * 10^precision rounded to the nearest integer q
\* (to the even one of two equally near), written as the digits of its
\* integer part, and for a precision above 0 a point and precision digits.
\* For an unsigned int the manipulators change nothing: its digits.
Fixed(v, precision, T) ==
    LET n  == AbsInt(v[1]) * (IF v[3] > 0 THEN Pow2(v[3]) ELSE 1) * Pow10(precision)
        d  == v[2] * (IF v[3] < 0 THEN Pow2(-v[3]) ELSE 1)
        q0 == n \div d
        r  == n % d
        q  == IF 2 * r > d \/ (2 * r = d /\ q0 % 2 = 1) THEN q0 + 1 ELSE q0
        fr == DigitsOf(q % Pow10(precision))
    IN  IF T = "unsigned int" THEN DigitsOf(ToUnsigned(v))
        ELSE (IF v[1] < 0 THEN <<"-">> ELSE <<>>)
             \o DigitsOf(q \div Pow10(precision))
             \o (IF precision = 0 THEN <<>>
                 ELSE <<".">> \o [k \in 1..(precision - Len(fr)) |-> "0"] \o fr)

\* The text CSVParser::write(filename, data, precision, delimiter) writes:
\* every row ends with a newline and has the delimiter between its values.
RECURSIVE WrittenText(_, _, _, _)
WrittenText(data, precision, delimiter, T) ==
    LET RECURSIVE Row(_, _)
        Row(r, j) ==
            IF j > Len(r) THEN <<"\n">>
            ELSE Fixed(r[j], precision, T)
                 \o (IF j < Len(r) THEN delimiter ELSE <<>>) \o Row(r, j + 1)
    IN  IF data = <<>> THEN <<>>
        ELSE Row(data[1], 1) \o WrittenText(SubSeq(data, 2, Len(data)), precision,
                                            delimiter, T)

(***************************************************************************)
(* The configuration (setup.cpp).  A JSON value is its type and its        *)
(* content; a number is digits * 10^exp10 as it is written, exp10 <= 0.    *)
(* A document is an object with its members, or Null after text that is    *)
(* not JSON: parseJSONConfig does not read the result of ParseStream.  The *)
(* csv files a document names are texts on the disk d.  A function that    *)
(* throws returns Thrown, with the row its message names (-1 when it names *)
(* none).                                                                  *)
(***************************************************************************)
JsonNumber(digits, exp10) == [type |-> "Number", digits |-> digits, exp10 |-> exp10]
JsonString(str) == [type |-> "String", value |-> str]
JsonBool(b) == [type |-> "Bool", bool |-> b]
JsonObject(members) == [type |-> "Object", members |-> members]

\* config_doc.HasMember(name); on a document that is no object rapidjson
\* asserts, and without assertions it finds no member.
HasMember(doc, name) == doc.type = "Object" /\ name \in DOMAIN doc.members

Thrown == [thrown |-> TRUE, data |-> <<>>, row |-> -1]
Returned(data) == [thrown |-> FALSE, data |-> data]

\* createVectorFromJSON(config_doc, variable, data) over the files of d: it
\* throws when the member is missing or no string, when the parser throws
\* and when no data was loaded.
createVectorFromJSON(doc, d, variable) ==
    IF ~HasMember(doc, variable) THEN Thrown
    ELSE IF doc.members[variable].type # "String" THEN Thrown
    ELSE Eval1(LAMBDA r : IF r.thrown \/ Len(r.data) = 0 THEN Thrown
                          ELSE Returned(r.data),
               parseToVector(d, doc.members[variable].value))

\* BadRow that names the last row of another width.
BadRowLast(data, width) ==
    LET bad == {i \in 1..Len(data) : Len(data[i]) # width}
    IN  IF bad = {} THEN -1 ELSE (CHOOSE i \in bad : \A m \in bad : i >= m) - 1

\* The loops of the create...VecFromJSON functions below throw at the first
\* row that has not the width they expect, and name it: BadRow is that row,
\* counted from 0, and -1 when every row has the width.
BadRow(data, width) ==
    LET bad == {i \in 1..Len(data) : Len(data[i]) # width}
    IN  IF bad = {} THEN -1 ELSE (CHOOSE i \in bad : \A m \in bad : i <= m) - 1

createNodeVecFromJSON(doc, d) ==
    Eval1(LAMBDA v :
        IF v.thrown THEN Thrown
        ELSE IF BadRow(v.data, 3) >= 0 THEN [Thrown EXCEPT !.row = BadRow(v.data, 3)]
        ELSE Returned([i \in 1..Len(v.data) |->
                          <<v.data[i][1], v.data[i][2], v.data[i][3]>>]),
        createVectorFromJSON(doc, d, "nodes"))

\* The elements are read as unsigned int: T f = std::strtod(...) cuts the
\* fraction off.  The loop looks at row i of elems before row i of props.
createElemVecFromJSON(doc, d) ==
    Eval2(LAMBDA e, p :
        LET bad == {BadRow(e.data, 2), BadRow(p.data, 7)} \ {-1}
        IN
        IF e.thrown \/ p.thrown \/ Len(e.data) # Len(p.data) THEN Thrown
        ELSE IF bad # {}
        THEN [Thrown EXCEPT !.row = CHOOSE i \in bad : \A m \in bad : i <= m]
        ELSE Returned([i \in 1..Len(e.data) |->
                 Elem(ToUnsigned(e.data[i][1]), ToUnsigned(e.data[i][2]),
                      Props(p.data[i][1], p.data[i][2], p.data[i][3], p.data[i][4],
                            <<p.data[i][5], p.data[i][6], p.data[i][7]>>))]),
        createVectorFromJSON(doc, d, "elems"),
        createVectorFromJSON(doc, d, "props"))

createBCVecFromJSON(doc, d) ==
    Eval1(LAMBDA v :
        IF v.thrown THEN Thrown
        ELSE IF BadRow(v.data, 3) >= 0 THEN [Thrown EXCEPT !.row = BadRow(v.data, 3)]
        ELSE Returned([i \in 1..Len(v.data) |->
                 BC(ToUnsigned(v.data[i][1]), ToUnsigned(v.data[i][2]), v.data[i][3])]),
        createVectorFromJSON(doc, d, "bcs"))

createForceVecFromJSON(doc, d) ==
    Eval1(LAMBDA v :
        IF v.thrown THEN Thrown
        ELSE IF BadRow(v.data, 3) >= 0 THEN [Thrown EXCEPT !.row = BadRow(v.data, 3)]
        ELSE Returned([i \in 1..Len(v.data) |->
                 Force(ToUnsigned(v.data[i][1]), ToUnsigned(v.data[i][2]), v.data[i][3])]),
        createVectorFromJSON(doc, d, "forces"))

createTieVecFromJSON(doc, d) ==
    Eval1(LAMBDA v :
        IF v.thrown THEN Thrown
        ELSE IF BadRow(v.data, 4) >= 0 THEN [Thrown EXCEPT !.row = BadRow(v.data, 4)]
        ELSE Returned([i \in 1..Len(v.data) |->
                 Tie(ToUnsigned(v.data[i][1]), ToUnsigned(v.data[i][2]),
                     v.data[i][3], v.data[i][4])]),
        createVectorFromJSON(doc, d, "ties"))

createJobFromJSON(doc, d) ==
    Eval2(LAMBDA nodes, elems :
              IF nodes.thrown THEN nodes
              ELSE IF elems.thrown THEN elems
              ELSE Returned(Job(nodes.data, elems.data)),
          createNodeVecFromJSON(doc, d),
          createElemVecFromJSON(doc, d))

\* The keys createOptionsFromJSON reads, with the JSON type it asks for.
OptionKeyTypes ==
    [epsilon |-> "Number", csv_precision |-> "Number", csv_delimiter |-> "String",
     save_nodal_displacements |-> "Bool", save_nodal_forces |-> "Bool",
     save_tie_forces |-> "Bool", verbose |-> "Bool", save_report |-> "Bool",
     nodal_displacements_filename |-> "String", nodal_forces_filename |-> "String",
     tie_forces_filename |-> "String", report_filename |-> "String"]

\* The value a key's Get...() call returns.  GetUint() asserts that the
\* number was written as an unsigned integer; without assertions it returns
\* the low word of what is stored, which for a double of few binary digits,
\* such as 2.5, is 0.
OptionValue(key, v) ==
    \* GetDouble() of a number.
    LET GetDouble(v1) == Frac(v1.digits, Pow10(-v1.exp10))
    IN
    CASE key = "epsilon" -> GetDouble(v)
      [] key = "csv_precision" -> IF v.exp10 = 0 THEN v.digits ELSE 0
      [] OptionKeyTypes[key] = "Bool" -> v.bool
      [] OTHER -> v.value

\* createOptionsFromJSON that stores save_tie_forces in save_nodal_forces.
createOptionsFromJSONSlip(doc) ==
    IF ~HasMember(doc, "options") THEN Returned(DefaultOptions)
    ELSE LET given == IF doc.members["options"].type = "Object"
                      THEN doc.members["options"].members ELSE <<>>
             read  == DOMAIN given \cap DOMAIN OptionKeyTypes
             Field(key) == IF key = "save_nodal_forces" /\ "save_tie_forces" \in read
                           THEN "save_tie_forces" ELSE key
         IN  IF \E key \in read : given[key].type # OptionKeyTypes[key] THEN Thrown
             ELSE Returned([key \in DOMAIN OptionKeyTypes |->
                      IF Field(key) \in read /\ key # "save_tie_forces"
                      THEN OptionValue(Field(key), given[Field(key)])
                      ELSE DefaultOptions[key]])

\* createOptionsFromJSON(config_doc): the defaults, and for each key of the
\* options member that it reads the value given; it throws at the first
\* such key whose value has another type.  In an options member that is no
\* object HasMember finds no key.
createOptionsFromJSON(doc) ==
    IF ~HasMember(doc, "options") THEN Returned(DefaultOptions)
    ELSE LET given == IF doc.members["options"].type = "Object"
                      THEN doc.members["options"].members ELSE <<>>
             read  == DOMAIN given \cap DOMAIN OptionKeyTypes
         IN  IF \E key \in read : given[key].type # OptionKeyTypes[key] THEN Thrown
             ELSE Returned([key \in DOMAIN OptionKeyTypes |->
                      IF key \in read THEN OptionValue(key, given[key])
                      ELSE DefaultOptions[key]])

\* A rapidjson assertion fails in createOptionsFromJSON(doc): HasMember on
\* an options member that is no object, GetUint on a csv_precision that is a
\* number but no unsigned integer.  A build with assertions aborts there.
OptionsAssert(doc) ==
    /\ HasMember(doc, "options")
    /\ IF doc.members["options"].type # "Object" THEN TRUE
       ELSE /\ "csv_precision" \in DOMAIN doc.members["options"].members
            /\ doc.members["options"].members["csv_precision"].type = "Number"
            /\ doc.members["options"].members["csv_precision"].exp10 # 0

\* runAnalysis up to the call of solve: the arguments of that call.
SolveArguments(doc, d) ==
    Eval2(LAMBDA j, o :
        Eval3(LAMBDA t, b, f :
                  IF j.thrown \/ t.thrown \/ b.thrown \/ f.thrown \/ o.thrown THEN Thrown
                  ELSE Returned([job |-> j.data, ties |-> t.data, bcs |-> b.data,
                                 forces |-> f.data, options |-> o.data]),
              IF HasMember(doc, "ties") THEN createTieVecFromJSON(doc, d)
              ELSE Returned(<<>>),
              IF HasMember(doc, "bcs") THEN createBCVecFromJSON(doc, d)
              ELSE Returned(<<>>),
              IF HasMember(doc, "forces") THEN createForceVecFromJSON(doc, d)
              ELSE Returned(<<>>)),
        createJobFromJSON(doc, d),
        createOptionsFromJSON(doc))

\* The files the environment refuses to open for writing, at one save.
UnwritableChoices == {{}, {"nodal_forces.csv"}, {"report.txt"}}

\* The pairs of unit vectors calcAelem is called with directly.
AxesCatalog ==
    {<<Vec(1, 0, 0), Vec(0, 1, 0)>>,
     <<Vec(1, 0, 0), Vec(0, 0, 1)>>,
     <<Vec(0, 0, 1), Vec(1, 0, 0)>>,
     <<<<Frac(3, 5), Frac(4, 5), Zero>>, Vec(0, 0, 1)>>,
     <<<<Frac(3, 5), Frac(4, 5), Zero>>, <<Frac(-4, 5), Frac(3, 5), Zero>>>>,
     <<<<Frac(3, 5), Frac(4, 5), Zero>>, Vec(0, 1, 0)>>,
     <<Vec(1, 0, 0), <<Zero, Frac(3, 5), Frac(4, 5)>>>>}

(***************************************************************************)
(* The state.  job, BCs, forces, ties, equations and options are the       *)
(* arguments of one call of solve, as threed_beam_fea.h declares it; pc is *)
(* the statement of solve that runs next ("done" after the return, "error" *)
(* after an exception or an abort, "kernel" while a caller drives the      *)
(* assembler's kernel directly).  summary, Kg, force_vec, assembleK3D,     *)
(* solver and dispSparse are the locals of solve, triplets the triplet     *)
(* list of the assembler's last call, files the files written so far.      *)
(* call records the assembler's last kernel calls: the element of the last *)
(* calcKelem (-1 before the first) and the arguments of the last           *)
(* calcAelem (<<>> before the first), and in before the two as they were   *)
(* before the last call.  The solver's numbers and the        *)
(* durations of the summary are not part of the model.  solver.info is    *)
(* the value of solver.info(); dispSparse.values[i + 1] is the entry of    *)
(* row i of the solution, and the result tables of the summary are         *)
(* sequences of rows.  proc is the process of the command-line program     *)
(* when solve is called from it.                                           *)
(***************************************************************************)
VARIABLES job, BCs, forces, ties, equations, options, pc, summary, Kg,
          force_vec, assembleK3D, triplets, solver, dispSparse, files, call,
          proc, disk, csv, calls, gui

vars == <<job, BCs, forces, ties, equations, options, pc, summary, Kg,
          force_vec, assembleK3D, triplets, solver, dispSparse, files, call,
          proc, disk, csv, calls, gui>>

inputs == <<job, BCs, forces, ties, equations, options>>

\* What lies outside one call of solve: the text files on the disk, a caller
\* of the CSVParser, the calls of solve that run beside each other and the
\* main window of the GUI.
others == <<disk, csv, calls, gui>>

Elsewhere ==
    /\ disk = <<>>
    /\ csv = [at |-> "none"]
    /\ calls = <<>>
    /\ gui = [at |-> "none"]

NoCall == [kelem |-> -1, aelem |-> <<>>, before |-> <<-1, <<>>>>]

\* solve is called from a program of the caller's own.
NoProcess == [at |-> "none"]

\* Eigen::SparseLU<SparseMat> solver: whether analyzePattern and factorize
\* have run, and what info() returns.
NewSolver == [analyzed |-> FALSE, factorized |-> FALSE, info |-> "None"]

\* The locals of solve before its first statement.
Locals ==
    /\ summary = NewSummary
    /\ Kg = SparseMat(0, 0)
    /\ force_vec = SparseVec(0)
    /\ assembleK3D = NewAssembler
    /\ triplets = <<>>
    /\ solver = NewSolver
    /\ dispSparse = [rows |-> 0, cols |-> 0, values |-> <<>>]
    /\ files = {}
    /\ call = NoCall

Init ==
    LET Equation(terms) == [terms |-> terms]
    IN
    LET Term(node_number, dof, coefficient) ==
            [node_number |-> node_number, dof |-> dof, coefficient |-> coefficient]
    IN
    /\ job \in {Job(SubSeq(FrameNodes, 1, Len(w) + 1), w) :
                    w \in Prefixes(FrameElems, MaxElems) \ {<<>>}}
    /\ BCs \in Prefixes(BCCatalog, MaxBCs)
    /\ forces \in Windows(<<Force(1, 1, Frac(1, 10)), Force(1, 1, Frac(3, 10)),
                              Force(0, 4, NumOf(-2))>>, MaxForces)
    /\ ties \in Prefixes(TieCatalog, MaxTies)
    /\ equations \in
          Prefixes(<<Equation(<<Term(0, 0, One), Term(1, 0, NumOf(-1))>>),
                     Equation(<<Term(1, 1, NumOf(2)), Term(0, 2, Frac(1, 2))>>)>>,
                   MaxEqns)
    /\ options \in OptionsCatalog
    /\ pc = "begin"
    /\ proc = NoProcess
    /\ Elsewhere
    /\ Locals

\* solve, up to the construction of Kg and force_vec.
SolveBegin ==
    /\ pc = "begin"
    /\ summary' = [summary EXCEPT !.num_nodes = Len(job.nodes),
                                  !.num_elems = Len(job.elems),
                                  !.num_bcs = Len(BCs),
                                  !.num_ties = Len(ties)]
    /\ LET size == NUM_DOFS * Len(job.nodes) + Len(BCs)
       IN  /\ Kg' = SparseMat(size, size)
           /\ force_vec' = SparseVec(size)
    /\ pc' = "assemble"
    /\ UNCHANGED <<others, inputs, proc, assembleK3D, triplets, solver, dispSparse, files, call>>

\* GlobalStiffAssembler assembleK3D; assembleK3D(Kg, job, ties).
SolveAssemble ==
    /\ pc = "assemble"
    /\ \E r \in {Assemble(NewAssembler, Kg, job, ties)} :
          /\ assembleK3D' = r.asm
          /\ triplets' = r.triplets
          /\ Kg' = r.Kg
    /\ call' = [kelem |-> Len(job.elems) - 1,
                aelem |-> ElemAxes(Len(job.elems) - 1, job),
                before |-> IF Len(job.elems) > 1
                           THEN <<Len(job.elems) - 2, ElemAxes(Len(job.elems) - 2, job)>>
                           ELSE <<call.kelem, call.aelem>>]
    /\ pc' = "loadBCs"
    /\ UNCHANGED <<others, inputs, proc, summary, force_vec, solver, dispSparse, files>>

\* loadBCs(Kg, force_vec, BCs, job.nodes.size()).
SolveLoadBCs ==
    /\ pc = "loadBCs"
    /\ \E r \in {loadBCs(Kg, force_vec, BCs, Len(job.nodes))} :
          /\ Kg' = r.Kg
          /\ force_vec' = r.force_vec
    /\ pc' = "loadForces"
    /\ UNCHANGED <<others, inputs, proc, summary, assembleK3D, triplets, solver, dispSparse,
                   files, call>>

\* if (forces.size() > 0) loadForces(force_vec, forces), in a build whose
\* insert() stores the entry whether or not the row is stored already.
SolveLoadForces ==
    /\ pc = "loadForces"
    /\ force_vec' = IF Len(forces) > 0 THEN loadForces(force_vec, forces)
                    ELSE force_vec
    /\ pc' = "compress"
    /\ UNCHANGED <<others, inputs, proc, summary, Kg, assembleK3D, triplets, solver, dispSparse,
                   files, call>>

\* The same statement in a build with Eigen's assertions, when a force
\* addresses a row that is stored already: insert() asserts that the row is
\* not stored and aborts the program.
SolveLoadForcesAbort ==
    /\ pc = "loadForces"
    /\ Len(forces) > 0
    /\ \E i \in 1..Len(forces) :
          \/ Stored(force_vec, NUM_DOFS * forces[i].node + forces[i].dof)
          \/ \E k \in 1..(i - 1) :
                 NUM_DOFS * forces[k].node + forces[k].dof
                     = NUM_DOFS * forces[i].node + forces[i].dof
    /\ pc' = "error"
    /\ UNCHANGED <<others, inputs, proc, summary, Kg, force_vec, assembleK3D, triplets, solver,
                   dispSparse, files, call>>

\* Kg.makeCompressed().
SolveCompress ==
    \* Kg.makeCompressed().
    LET makeCompressed(K) == [K EXCEPT !.compressed = TRUE]
    IN
    /\ pc = "compress"
    /\ Kg' = makeCompressed(Kg)
    /\ pc' = "analyze"
    /\ UNCHANGED <<others, inputs, proc, summary, force_vec, assembleK3D, triplets, solver,
                   dispSparse, files, call>>

\* solver.analyzePattern(Kg).
SolveAnalyzePattern ==
    /\ pc = "analyze"
    /\ solver' = [solver EXCEPT !.analyzed = TRUE]
    /\ pc' = "factorize"
    /\ UNCHANGED <<others, inputs, proc, summary, Kg, force_vec, assembleK3D, triplets,
                   dispSparse, files, call>>

\* SolveFactorize that goes on to the saving of the files.
SolveFactorizeSkipsSolve ==
    /\ pc = "factorize"
    /\ solver' = [solver EXCEPT !.factorized = TRUE]
    /\ pc' = "save"
    /\ UNCHANGED <<others, inputs, proc, summary, Kg, force_vec, assembleK3D, triplets,
                   dispSparse, files, call>>

\* solver.factorize(Kg); solve does not read solver.info().
SolveFactorize ==
    /\ pc = "factorize"
    /\ solver' = [solver EXCEPT !.factorized = TRUE, !.info = factorize(Kg)]
    /\ pc' = "solve"
    /\ UNCHANGED <<others, inputs, proc, summary, Kg, force_vec, assembleK3D, triplets,
                   dispSparse, files, call>>

\* SparseMat dispSparse = solver.solve(force_vec).  After a factorization
\* that failed, a build without Eigen's assertions substitutes through the
\* incomplete factors: every row holds whatever that makes of them, NaN or
\* a number.
SolveSystem ==
    \* solver.solve(fv) after a successful factorize(K): the x with K x = fv,
    \* x[i + 1] the entry of row i.
    LET LUSolve(K, fv) ==
            Eval1(LAMBDA red : Explicit([i \in 1..K.rows |-> red[i][K.cols + 1]]),
                  Reduce(Augmented(K, fv), 1))
    IN
    /\ pc = "solve"
    /\ \E x \in IF solver.info = "Success" THEN {LUSolve(Kg, force_vec)}
               ELSE {[i \in 1..Kg.cols |-> g] @@ <<>> : g \in {NaN, NumOf(7)}} :
          dispSparse' = [rows |-> Kg.cols, cols |-> force_vec.cols, values |-> x]
    /\ pc' = "extract"
    /\ UNCHANGED <<others, inputs, proc, summary, Kg, force_vec, assembleK3D, triplets, solver,
                   files, call>>

\* The same statement in a build with Eigen's assertions, after a
\* factorization that failed: solve() asserts that the factorization is
\* there and aborts the program.
SolveSystemAbort ==
    /\ pc = "solve"
    /\ solver.info # "Success"
    /\ pc' = "error"
    /\ UNCHANGED <<others, inputs, proc, summary, Kg, force_vec, assembleK3D, triplets, solver,
                   dispSparse, files, call>>

\* The tables of the nodal displacements, the nodal forces and the tie
\* forces; Kg and dispSparse are cut down to the rows of the nodes.  The
\* nodal forces are Kg * dispSparse, from the displacements before rounding;
\* the tie forces are computed from the rounded displacements.
SolveExtract ==
    \* Kg.topLeftCorner(n, m), assigned to a matrix.
    LET topLeftCorner(K, n, m) ==
            [rows |-> n, cols |-> m,
             coeff |-> [rc \in {x \in DOMAIN K.coeff : x[1] < n /\ x[2] < m} |-> K.coeff[rc]],
             compressed |-> TRUE]
    IN
    /\ pc = "extract"
    /\ \E n \in {NUM_DOFS * Len(job.nodes)} :
       \E disp_vec \in {RoundedTable(dispSparse.values, Len(job.nodes),
                                     options.epsilon)} :
       \E Kfree \in {topLeftCorner(Kg, n, n)} :
       \E top \in {SubSeq(dispSparse.values, 1, n)} :
       \E nodal_forces_vec \in {RoundedTable(SparseTimes(Kfree, top),
                                             Len(job.nodes), options.epsilon)} :
           /\ Kg' = Kfree
           /\ dispSparse' = [dispSparse EXCEPT !.rows = n, !.values = top]
           /\ summary' = [summary EXCEPT
                  !.nodal_displacements = disp_vec,
                  !.nodal_forces = nodal_forces_vec,
                  !.tie_forces = IF Len(ties) > 0
                                 THEN computeTieForces(ties, disp_vec)
                                 ELSE @]
    /\ pc' = "save"
    /\ UNCHANGED <<others, inputs, proc, force_vec, assembleK3D, triplets, solver, files, call>>

\* The csv.write statements; csv.write throws when the file does not open.
SolveSaveFiles ==
    \* The files solve's three csv.write statements are asked to write, in order.
    LET SavedFiles(opts) ==
            (IF opts.save_nodal_displacements THEN <<opts.nodal_displacements_filename>>
             ELSE <<>>)
            \o (IF opts.save_nodal_forces THEN <<opts.nodal_forces_filename>> ELSE <<>>)
            \o (IF opts.save_tie_forces THEN <<opts.tie_forces_filename>> ELSE <<>>)
    IN
    \* The files written by the writes of names in order when those of bad cannot
    \* be opened: the names before the first one of bad.
    LET WrittenBefore(names, bad) ==
            {names[k] : k \in {m \in 1..Len(names) : \A q \in 1..m : names[q] \notin bad}}
    IN
    /\ pc = "save"
    /\ \E bad \in UnwritableChoices :
          LET names == SavedFiles(options)
          IN  /\ files' = files \cup WrittenBefore(names, bad)
              /\ pc' = IF \E k \in 1..Len(names) : names[k] \in bad
                       THEN "error" ELSE "report"
    /\ UNCHANGED <<others, inputs, proc, summary, Kg, force_vec, assembleK3D, triplets, solver,
                   dispSparse, call>>

\* The report (writeStringToTxt throws when the file does not open) and the
\* return of the summary.
SolveReport ==
    /\ pc = "report"
    /\ \E bad \in UnwritableChoices :
          IF options.save_report /\ options.report_filename \in bad
          THEN /\ pc' = "error"
               /\ files' = files
          ELSE /\ pc' = "done"
               /\ files' = IF options.save_report
                           THEN files \cup {options.report_filename} ELSE files
    /\ UNCHANGED <<others, inputs, proc, summary, Kg, force_vec, assembleK3D, triplets, solver,
                   dispSparse, call>>

Next ==
    \/ SolveBegin
    \/ SolveAssemble
    \/ SolveLoadBCs
    \/ SolveLoadForces
    \/ SolveLoadForcesAbort
    \/ SolveCompress
    \/ SolveAnalyzePattern
    \/ SolveFactorize
    \/ SolveSystem
    \/ SolveSystemAbort
    \/ SolveExtract
    \/ SolveSaveFiles
    \/ SolveReport

Spec == Init /\ [][Next]_vars

\* solve runs on one thread that nothing suspends: it takes its next step.
\* The calls without boundary conditions and equations stand for all calls
\* here: no statement of solve branches on either list.
FairInit == Init /\ BCs = <<>> /\ equations = <<>>

FairSpec == FairInit /\ [][Next]_vars /\ WF_vars(Next)

(***************************************************************************)
(* Calls of solve with indices out of range: a node number that is not a   *)
(* node of the job, a dof that is not in 0..5.  The loaders compute the    *)
(* row 6 * node + dof from them as from any other index.  The calls here   *)
(* are those whose rows all lie inside the system (behind the rows of the  *)
(* nodes are those of the boundary conditions); a write beyond it is       *)
(* outside the storage Eigen has allocated, an element on a missing node   *)
(* reads beyond job.nodes and a tie on one reads beyond the table of the   *)
(* displacements in computeTieForces.                                      *)
(***************************************************************************)
DomainInit ==
    /\ job = Job(SubSeq(FrameNodes, 1, 2), SubSeq(FrameElems, 1, 1))
    /\ BCs \in {<<>>, SubSeq(BCCatalog, 1, 6),
                SubSeq(BCCatalog, 1, 6) \o <<BC(0, 6, Zero)>>,
                SubSeq(BCCatalog, 1, 6) \o <<BC(2, 0, Zero)>>,
                SubSeq(BCCatalog, 1, 6) \o <<BC(0, 1, Frac(1, 4))>>,
                SubSeq(BCCatalog, 1, 6) \o <<BC(0, 0, DBL_EPSILON)>>}
    /\ forces \in {<<>>, <<Force(0, 7, Frac(3, 10))>>, <<Force(2, 0, Frac(1, 10))>>,
                   <<Force(2, 1, Frac(1, 10))>>}
    /\ ties \in Prefixes(TieCatalog, 1)
    /\ \A row \in {NUM_DOFS * BCs[i].node + BCs[i].dof : i \in 1..Len(BCs)}
                    \cup {NUM_DOFS * forces[i].node + forces[i].dof :
                             i \in 1..Len(forces)} :
           row < NUM_DOFS * Len(job.nodes) + Len(BCs)
    /\ equations = <<>>
    /\ options \in OptionsCatalog
    /\ pc = "begin"
    /\ proc = NoProcess
    /\ Elsewhere
    /\ Locals

DomainSpec == DomainInit /\ [][Next]_vars

(***************************************************************************)
(* The command-line program (tests/main.cpp).  proc.at is the statement of *)
(* main that runs next, proc.status the exit status once the process has   *)
(* ended (0 from main's return, 1 from the exit of the argument parser,    *)
(* 134 from abort), proc.diagnostic whether something was written to the   *)
(* standard error stream.  An exception that main does not catch ends in   *)
(* std::terminate, which names the exception on the standard error stream  *)
(* and aborts; so does a failed assertion.                                 *)
(***************************************************************************)
\* The csv files on the disk: those of a clamped beam, and a table with a
\* short row, one with an empty line, an empty one, one with a word, one
\* with a blank behind every comma, one of tabs without a last newline and
\* one of two rows of two.
CsvFiles ==
    ("nodes.csv" :>
        <<"0", ",", "0", ",", "0", "\n", "2", ",", "0", ",", "0", "\n">>)
    @@ ("elems.csv" :>
        <<"0", ",", "1", "\n">>)
    @@ ("props.csv" :>
        <<"6", ",", "4", ",", "2", ",", "3", ",", "0", ",", "1", ",", "0",
          "\n">>)
    @@ ("bcs.csv" :>
        <<"0", ",", "0", ",", "0", "\n", "0", ",", "1", ",", "0", "\n", "0",
          ",", "2", ",", "0", "\n", "0", ",", "3", ",", "0", "\n", "0", ",",
          "4", ",", "0", "\n", "0", ",", "5", ",", "0", "\n">>)
    @@ ("forces.csv" :>
        <<"1", ",", "1", ",", "0", ".", "3", "\n">>)
    @@ ("twice.csv" :>
        <<"1", ",", "1", ",", "0", ".", "1", "\n", "1", ",", "1", ",", "0",
          ".", "3", "\n">>)
    @@ ("ties.csv" :>
        <<"0", ",", "1", ",", "5", ",", "7", "\n">>)
    @@ ("short.csv" :>
        <<"0", ",", "1", "\n">>)
    @@ ("ragged.csv" :>
        <<"0", ",", "0", ",", "0", "\n", "2", ",", "0", "\n">>)
    @@ ("blank.csv" :>
        <<"0", ",", "1", ",", "0", "\n", "\n">>)
    @@ ("empty.csv" :>
        <<>>)
    @@ ("words.csv" :>
        <<"1", ",", "x", ",", "3", "\n">>)
    @@ ("spaced.csv" :>
        <<"1", ",", " ", "2", ",", " ", "3", "\n">>)
    @@ ("tail.csv" :>
        <<"4", "\t", "5", "\t", "6">>)
    @@ ("two.csv" :>
        <<"0", ",", "1", "\n", "1", ",", "2", "\n">>)

\* The configuration files: a clamped beam with a tip force; the beam
\* without boundary conditions; the clamped beam with ties, a force given
\* twice and every option set; the clamped beam that saves under the
\* default names; with options of a wrong type; with a boundary condition
\* file of short rows; an object without members; and text that is not JSON.
ConfigFiles ==
    \* The members every complete configuration has.
    LET JobMembers ==
            ("nodes" :> JsonString("nodes.csv")) @@ ("elems" :> JsonString("elems.csv"))
            @@ ("props" :> JsonString("props.csv"))
    IN
    ("beam.json" :> JsonObject(JobMembers @@ ("bcs" :> JsonString("bcs.csv"))
                               @@ ("forces" :> JsonString("forces.csv"))))
    @@ ("free.json" :> JsonObject(JobMembers
            @@ ("forces" :> JsonString("forces.csv"))
            @@ ("options" :> JsonObject(
                    ("epsilon" :> JsonNumber(125, -3))
                    @@ ("save_report" :> JsonBool(TRUE))
                    @@ ("report_filename" :> JsonString("free.txt"))
                    @@ ("colour" :> JsonString("red"))))))
    @@ ("tied.json" :> JsonObject(JobMembers @@ ("bcs" :> JsonString("bcs.csv"))
            @@ ("forces" :> JsonString("twice.csv"))
            @@ ("ties" :> JsonString("ties.csv"))
            @@ ("options" :> JsonObject(
                    ("epsilon" :> JsonNumber(5, -1))
                    @@ ("csv_precision" :> JsonNumber(8, 0))
                    @@ ("csv_delimiter" :> JsonString(";"))
                    @@ ("save_nodal_displacements" :> JsonBool(TRUE))
                    @@ ("save_nodal_forces" :> JsonBool(FALSE))
                    @@ ("save_tie_forces" :> JsonBool(TRUE))
                    @@ ("verbose" :> JsonBool(TRUE))
                    @@ ("save_report" :> JsonBool(TRUE))
                    @@ ("nodal_displacements_filename" :> JsonString("u.csv"))
                    @@ ("nodal_forces_filename" :> JsonString("r.csv"))
                    @@ ("tie_forces_filename" :> JsonString("t.csv"))
                    @@ ("report_filename" :> JsonString("tied.txt"))))))
    @@ ("saved.json" :> JsonObject(JobMembers @@ ("bcs" :> JsonString("bcs.csv"))
            @@ ("ties" :> JsonString("ties.csv"))
            @@ ("options" :> JsonObject(
                    ("save_nodal_forces" :> JsonBool(TRUE))
                    @@ ("save_report" :> JsonBool(TRUE))))))
    @@ ("mistyped.json" :> JsonObject(JobMembers @@ ("bcs" :> JsonString("bcs.csv"))
            @@ ("options" :> JsonObject(("verbose" :> JsonNumber(1, 0))))))
    @@ ("short.json" :> JsonObject(JobMembers @@ ("bcs" :> JsonString("short.csv"))))
    @@ ("empty.json" :> JsonObject(<<>>))
    @@ ("broken.json" :> [type |-> "Null"])

\* The process ended by exit(status), by main's return or by abort().
Exited(p, status, diagnostic) ==
    [p EXCEPT !.at = "exited", !.status = status, !.diagnostic = diagnostic]

MainInit ==
    \* The command lines: one per configuration file, one that names a file
    \* that is not there, and three the argument parser refuses.
    LET ArgvCatalog ==
            {<<"-c", f>> : f \in DOMAIN ConfigFiles \cup {"missing.json"}}
                \cup {<<"--config", "beam.json">>, <<>>, <<"-c">>, <<"--colour", "red">>}
    IN
    /\ proc \in {[at |-> "parse", argv |-> argv, config_filename |-> "",
                   config_doc |-> [type |-> "Null"], status |-> -1,
                   diagnostic |-> FALSE] : argv \in ArgvCatalog}
    /\ job = Job(<<>>, <<>>)
    /\ BCs = <<>>
    /\ forces = <<>>
    /\ ties = <<>>
    /\ equations = <<>>
    /\ options = DefaultOptions
    /\ pc = "main"
    /\ disk = CsvFiles
    /\ csv = [at |-> "none"]
    /\ calls = <<>>
    /\ gui = [at |-> "none"]
    /\ Locals

\* cmd.parse(argc, argv): the required -c / --config with its value, or the
\* parser's message on the error stream and exit(1).
MainParse ==
    /\ proc.at = "parse"
    /\ proc' = IF Len(proc.argv) = 2 /\ proc.argv[1] \in {"-c", "--config"}
               THEN [proc EXCEPT !.at = "config", !.config_filename = proc.argv[2]]
               ELSE Exited(proc, 1, TRUE)
    /\ UNCHANGED <<others, inputs, pc, summary, Kg, force_vec, assembleK3D, triplets, solver,
                   dispSparse, files, call>>

\* parseJSONConfig(config_filename): it throws when the file does not open.
MainParseJSONConfig ==
    /\ proc.at = "config"
    /\ proc' = IF proc.config_filename \in DOMAIN ConfigFiles
               THEN [proc EXCEPT !.at = "analysis",
                                 !.config_doc = ConfigFiles[proc.config_filename]]
               ELSE Exited(proc, 134, TRUE)
    /\ UNCHANGED <<others, inputs, pc, summary, Kg, force_vec, assembleK3D, triplets, solver,
                   dispSparse, files, call>>

\* runAnalysis(config_doc) up to its call of solve.
MainRunAnalysis ==
    /\ proc.at = "analysis"
    /\ \E r \in {SolveArguments(proc.config_doc, disk)}
                  \cup (IF OptionsAssert(proc.config_doc) THEN {Thrown} ELSE {}) :
          IF r.thrown
          THEN /\ proc' = Exited(proc, 134, TRUE)
               /\ UNCHANGED <<inputs, pc>>
          ELSE /\ proc' = [proc EXCEPT !.at = "solve"]
               /\ job' = r.data.job
               /\ BCs' = r.data.bcs
               /\ forces' = r.data.forces
               /\ ties' = r.data.ties
               /\ options' = r.data.options
               /\ pc' = "begin"
               /\ UNCHANGED equations
    /\ UNCHANGED <<others, summary, Kg, force_vec, assembleK3D, triplets, solver,
                   dispSparse, files, call>>

\* solve has returned: main drops the summary and returns 0.
MainReturn ==
    /\ proc.at = "solve"
    /\ pc = "done"
    /\ proc' = Exited(proc, 0, FALSE)
    /\ UNCHANGED <<others, inputs, pc, summary, Kg, force_vec, assembleK3D, triplets, solver,
                   dispSparse, files, call>>

\* solve has thrown or an assertion in it has failed.
MainAbort ==
    /\ proc.at = "solve"
    /\ pc = "error"
    /\ proc' = Exited(proc, 134, TRUE)
    /\ UNCHANGED <<others, inputs, pc, summary, Kg, force_vec, assembleK3D, triplets, solver,
                   dispSparse, files, call>>

MainNext ==
    \/ MainParse
    \/ MainParseJSONConfig
    \/ MainRunAnalysis
    \/ MainReturn
    \/ MainAbort
    \/ Next

MainSpec == MainInit /\ [][MainNext]_vars

(***************************************************************************)
(* The loaders driven directly, as the tests of csv_parser_tests.cpp and   *)
(* setup_tests.cpp drive them: a caller writes a table with                *)
(* CSVParser::write, parses a file with CSVParser::parseToVector and calls *)
(* the create...FromJSON functions on documents that name the files of the *)
(* disk.  A caller writes tables and then makes one of the other calls,    *)
(* as each of the tests does.  csv.at is the last call and csv.written the *)
(* arguments of the last write that went through.  parseToVector is the    *)
(* one into rows of double.                                                *)
(***************************************************************************)
MaxRows == 2
MaxPrecision == 1

LoaderInit ==
    /\ job = Job(<<>>, <<>>)
    /\ BCs = <<>>
    /\ forces = <<>>
    /\ ties = <<>>
    /\ equations = <<>>
    /\ options = DefaultOptions
    /\ pc = "loader"
    /\ proc = NoProcess
    /\ disk = CsvFiles
    /\ csv = [at |-> "none", written |-> <<>>]
    /\ calls = <<>>
    /\ gui = [at |-> "none"]
    /\ Locals

\* csv.write("out.csv", data, precision, delimiter) for a table of unsigned
\* int or of double; it throws when the file does not open.
CallWrite ==
    /\ pc = "loader"
    /\ \E data \in Windows(<<<<NumOf(1), NumOf(2)>>, <<NumOf(3), NumOf(4)>>,
                              <<NumOf(0), NumOf(12)>>, <<NumOf(7)>>>>, MaxRows),
          precision \in 0..MaxPrecision,
          delimiter \in {<<",">>, <<" ">>, <<"\t">>, <<",", " ">>, <<";">>},
          T \in {"unsigned int", "double"},
          opens \in BOOLEAN :
          IF opens
          THEN /\ disk' = ("out.csv" :> WrittenText(data, precision, delimiter, T))
                              @@ disk
               /\ csv' = [at |-> "write",
                          written |-> [data |-> data, precision |-> precision,
                                       delimiter |-> delimiter, T |-> T]]
          ELSE /\ disk' = disk
               /\ csv' = [at |-> "write", written |-> csv.written, result |-> Thrown]
    /\ UNCHANGED <<inputs, proc, pc, summary, Kg, force_vec, assembleK3D, triplets,
                   solver, dispSparse, files, call, calls, gui>>

\* csv.parseToVector(filename, data).
CallParseToVector ==
    /\ pc = "loader"
    /\ \E filename \in DOMAIN disk \cup {"missing.csv"} :
          csv' = [at |-> "parseToVector", written |-> csv.written,
                  filename |-> filename, result |-> parseToVector(disk, filename)]
    /\ pc' = "called"
    /\ UNCHANGED <<inputs, proc, summary, Kg, force_vec, assembleK3D, triplets,
                   solver, dispSparse, files, call, disk, calls, gui>>

\* One of the five create...VecFromJSON functions, on a document whose
\* members are the names of files, or that lacks the member, or has a number
\* or a bool in its place.
CallCreateVec ==
    /\ pc = "loader"
    /\ \E fn \in {"nodes", "elems", "bcs", "forces", "ties"} :
          \E doc \in {JsonObject(<<>>)} \cup
                      {JsonObject(IF fn = "elems"
                                  THEN ("elems" :> v1) @@ ("props" :> v2)
                                  ELSE (fn :> v1)) :
                          v1 \in {JsonString(f) : f \in DOMAIN disk \cup {"missing.csv"}}
                                    \cup {JsonNumber(3, 0)},
                          v2 \in IF fn = "elems"
                                 THEN {JsonString("props.csv"), JsonString("two.csv"),
                                       JsonBool(TRUE)}
                                 ELSE {JsonBool(TRUE)}} :
              csv' = [at |-> fn, written |-> csv.written, doc |-> doc,
                      result |-> CASE fn = "nodes" -> createNodeVecFromJSON(doc, disk)
                                   [] fn = "elems" -> createElemVecFromJSON(doc, disk)
                                   [] fn = "bcs" -> createBCVecFromJSON(doc, disk)
                                   [] fn = "forces" -> createForceVecFromJSON(doc, disk)
                                   [] fn = "ties" -> createTieVecFromJSON(doc, disk)]
    /\ pc' = "called"
    /\ UNCHANGED <<inputs, proc, summary, Kg, force_vec, assembleK3D, triplets,
                   solver, dispSparse, files, call, disk, calls, gui>>

\* createOptionsFromJSON(doc) on a configuration file, on a document with
\* one option, of any type, and on one whose options member is no object.
\* Where a rapidjson assertion fails, a build with assertions aborts.
CallCreateOptions ==
    /\ pc = "loader"
    /\ \E doc \in {ConfigFiles[f] : f \in DOMAIN ConfigFiles}
                   \cup {JsonObject("options" :> JsonObject(key :> v)) :
                            key \in DOMAIN OptionKeyTypes \cup {"colour"},
                            v \in {JsonNumber(3, 0), JsonNumber(25, -1),
                                   JsonString("a.csv"), JsonBool(TRUE)}}
                   \cup {JsonObject("options" :> v) :
                            v \in {JsonNumber(3, 0), JsonString("none")}} :
          \/ csv' = [at |-> "options", written |-> csv.written, doc |-> doc,
                     result |-> createOptionsFromJSON(doc)]
          \/ /\ OptionsAssert(doc)
             /\ csv' = [at |-> "aborted", written |-> csv.written, doc |-> doc]
    /\ pc' = "called"
    /\ UNCHANGED <<inputs, proc, summary, Kg, force_vec, assembleK3D, triplets,
                   solver, dispSparse, files, call, disk, calls, gui>>

LoaderNext ==
    \/ CallWrite
    \/ CallParseToVector
    \/ CallCreateVec
    \/ CallCreateOptions

LoaderSpec == LoaderInit /\ [][LoaderNext]_vars

(***************************************************************************)
(* Two calls of solve that run beside each other, on two threads of one    *)
(* program or in two processes with one working directory.  Up to the      *)
(* saving a call of solve reads its arguments and writes its locals, and   *)
(* nothing else: these statements are one step here, and what they have    *)
(* computed is calls[i].summary.  The saving is the three csv.write        *)
(* statements and writeStringToTxt, each of which opens its file, which    *)
(* empties it, fills the buffer of the stream and writes the buffer from   *)
(* the start of the file when it closes the stream.  calls[i].k is the     *)
(* save that is next, calls[i].pc the statement.  The report is the        *)
(* number of nodes here, and the precision is 1.                           *)
(***************************************************************************)
\* The files a call saves, in the order of the statements, with the text
\* each one holds when nothing else writes it.
Saves(c) ==
    LET Text(table) == WrittenText(table, c.options.csv_precision,
                                   <<c.options.csv_delimiter>>, "double")
        Save(flag, name, text) == IF flag THEN <<[name |-> name, text |-> text]>>
                                  ELSE <<>>
    IN  Save(c.options.save_nodal_displacements,
             c.options.nodal_displacements_filename, Text(c.summary.nodal_displacements))
        \o Save(c.options.save_nodal_forces,
                c.options.nodal_forces_filename, Text(c.summary.nodal_forces))
        \o Save(c.options.save_tie_forces,
                c.options.tie_forces_filename, Text(c.summary.tie_forces))
        \o Save(c.options.save_report, c.options.report_filename,
                DigitsOf(c.summary.num_nodes) \o <<"\n">>)

BesideInit ==
    /\ job = Job(<<>>, <<>>)
    /\ BCs = <<>>
    /\ forces = <<>>
    /\ ties = <<>>
    /\ equations = <<>>
    /\ options = DefaultOptions
    /\ pc = "beside"
    /\ proc = NoProcess
    /\ disk = <<>>
    /\ csv = [at |-> "none"]
    /\ gui = [at |-> "none"]
    /\ Locals
    /\ \E saving \in {[DefaultOptions EXCEPT !.csv_precision = 1,
                                             !.save_nodal_displacements = TRUE,
                                             !.save_nodal_forces = TRUE,
                                             !.save_report = TRUE]} :
       \E results \in
              {<<[NewSummary EXCEPT !.num_nodes = 2,
                                    !.nodal_displacements = <<<<NumOf(1), NumOf(2)>>,
                                                              <<NumOf(3), NumOf(4)>>>>,
                                    !.nodal_forces = <<<<NumOf(0), NumOf(12)>>,
                                                       <<NumOf(7), NumOf(0)>>>>],
                 [NewSummary EXCEPT !.num_nodes = 1,
                                    !.nodal_displacements = <<<<NumOf(5), NumOf(6)>>>>,
                                    !.nodal_forces = <<<<NumOf(0), NumOf(3)>>>>]>>} :
           calls \in {[i \in 1..2 |->
                          [pc |-> "begin", k |-> 1, options |-> o[i],
                           summary |-> results[s[i]]]] :
                        o \in [1..2 -> {saving,
                                        [saving EXCEPT
                                            !.nodal_displacements_filename = "u2.csv",
                                            !.nodal_forces_filename = "r2.csv",
                                            !.report_filename = "report2.txt"],
                                        [saving EXCEPT !.save_nodal_forces = FALSE,
                                                       !.save_report = FALSE]}],
                        s \in {<<1, 2>>, <<2, 1>>}}

\* Call i of solve up to the saving.
BesideCompute(i) ==
    /\ calls[i].pc = "begin"
    /\ calls' = [calls EXCEPT ![i].pc = "save"]
    /\ UNCHANGED <<inputs, proc, pc, summary, Kg, force_vec, assembleK3D, triplets,
                   solver, dispSparse, files, call, disk, csv, gui>>

\* output_file.open(filename) of the save that is next.
BesideOpen(i) ==
    /\ calls[i].pc = "save"
    /\ calls[i].k <= Len(Saves(calls[i]))
    /\ disk' = (Saves(calls[i])[calls[i].k].name :> <<>>) @@ disk
    /\ calls' = [calls EXCEPT ![i].pc = "close"]
    /\ UNCHANGED <<inputs, proc, pc, summary, Kg, force_vec, assembleK3D, triplets,
                   solver, dispSparse, files, call, csv, gui>>

\* output_file.close(): the text goes over what the file holds by now.
BesideClose(i) ==
    /\ calls[i].pc = "close"
    /\ \E s \in {Saves(calls[i])[calls[i].k]} :
          disk' = [disk EXCEPT ![s.name] =
                      s.text \o SubSeq(disk[s.name], Len(s.text) + 1, Len(disk[s.name]))]
    /\ calls' = [calls EXCEPT ![i].pc = "save", ![i].k = @ + 1]
    /\ UNCHANGED <<inputs, proc, pc, summary, Kg, force_vec, assembleK3D, triplets,
                   solver, dispSparse, files, call, csv, gui>>

\* return summary.
BesideReturn(i) ==
    /\ calls[i].pc = "save"
    /\ calls[i].k > Len(Saves(calls[i]))
    /\ calls' = [calls EXCEPT ![i].pc = "done"]
    /\ UNCHANGED <<inputs, proc, pc, summary, Kg, force_vec, assembleK3D, triplets,
                   solver, dispSparse, files, call, disk, csv, gui>>

BesideNext ==
    \E i \in 1..2 :
        \/ BesideCompute(i)
        \/ BesideOpen(i)
        \/ BesideClose(i)
        \/ BesideReturn(i)

BesideSpec == BesideInit /\ [][BesideNext]_vars

(***************************************************************************)
(* The main window (gui/mainwindow.cpp) for one submission.  gui.enabled   *)
(* is the enabled flag of the window; gui.progress is what the member      *)
(* progress points to: "shown" after submit, "deleted" once delete         *)
(* progress has run, since no statement sets the pointer back to null;     *)
(* gui.deletes counts the delete statements run on it and gui.usedDeleted  *)
(* tells that a statement has used the dialog after its deletion.          *)
(* gui.process is the solver process, gui.finished its finished signal     *)
(* ("none", the exit status while the signal waits, "emitted" after),      *)
(* gui.outPipe and gui.errPipe the chunks the process has written to       *)
(* standard output and standard error that the event loop has not yet      *)
(* announced with readyRead.  QMessageBox::critical and message->exec()    *)
(* run an event loop of their own: gui.boxes are the message boxes that    *)
(* are open, the last one on top, and the statement after each, which is   *)
(* setEnabled(true), runs when the box is closed.  All slots run on the    *)
(* one thread of the event loop.                                           *)
(***************************************************************************)
MaxChunks == 2

\* if (progress) { progress->done(QDialog::Accepted); ...; delete progress; }
DeleteProgress(g) ==
    IF g.progress = "null" THEN g
    ELSE [g EXCEPT !.usedDeleted = @ \/ g.progress = "deleted",
                   !.deletes = @ + 1,
                   !.progress = "deleted"]

\* handleCanceledFEA(); some tells that readAllStandardError() returned text.
handleCanceledFEA(g, some) ==
    LET killed == IF g.process \in {"starting", "running"}
                  THEN [g EXCEPT !.process = "crashed", !.finished = "CrashExit"]
                  ELSE g
        closed == DeleteProgress([killed EXCEPT !.feaTerminated = TRUE])
    IN  IF some THEN [closed EXCEPT !.boxes = Append(@, "critical")]
        ELSE [closed EXCEPT !.enabled = TRUE]

\* handleFinishedFEA(exitCode, exitStatus).
handleFinishedFEA(g, exitStatus) ==
    IF exitStatus = "NormalExit" /\ ~g.feaTerminated
    THEN [DeleteProgress(g) EXCEPT !.boxes = Append(@, "summary")]
    ELSE g

\* updateProgressText().
updateProgressText(g) ==
    IF g.progress = "null" THEN g
    ELSE [g EXCEPT !.usedDeleted = @ \/ g.progress = "deleted"]

GuiInit ==
    /\ job = Job(<<>>, <<>>)
    /\ BCs = <<>>
    /\ forces = <<>>
    /\ ties = <<>>
    /\ equations = <<>>
    /\ options = DefaultOptions
    /\ pc = "gui"
    /\ proc = NoProcess
    /\ disk = <<>>
    /\ csv = [at |-> "none"]
    /\ calls = <<>>
    /\ gui = [at |-> "idle", enabled |-> TRUE, progress |-> "null", deletes |-> 0,
              usedDeleted |-> FALSE, feaTerminated |-> FALSE, process |-> "none",
              finished |-> "none", outPipe |-> 0, errPipe |-> 0, boxes |-> <<>>]
    /\ Locals

GuiUnchanged ==
    UNCHANGED <<inputs, proc, pc, summary, Kg, force_vec, assembleK3D, triplets,
                solver, dispSparse, files, call, disk, csv, calls>>

\* submit() with the files ready, and solveFEA() in it: the process is
\* started, or writeConfigDocToFile throws and the catch block reports it.
Submit ==
    /\ gui.at = "idle"
    /\ \E thrown \in BOOLEAN :
          gui' = IF thrown
                 THEN [gui EXCEPT !.at = "submitted", !.progress = "shown",
                                  !.enabled = FALSE, !.feaTerminated = FALSE,
                                  !.boxes = Append(@, "critical")]
                 ELSE [gui EXCEPT !.at = "submitted", !.progress = "shown",
                                  !.enabled = FALSE, !.feaTerminated = FALSE,
                                  !.process = "starting"]
    /\ GuiUnchanged

\* The program of the solver starts, or cannot be started: then QProcess
\* emits errorOccurred, which has no slot, and never finished.
ProcessStarts ==
    /\ gui.process = "starting"
    /\ \E p \in {"running", "failed"} : gui' = [gui EXCEPT !.process = p]
    /\ GuiUnchanged

\* The solver writes to standard output or to standard error.
ProcessWrites ==
    /\ gui.process = "running"
    /\ \/ /\ gui.outPipe < MaxChunks
          /\ gui' = [gui EXCEPT !.outPipe = @ + 1]
       \/ /\ gui.errPipe < MaxChunks
          /\ gui' = [gui EXCEPT !.errPipe = @ + 1]
    /\ GuiUnchanged

\* The solver returns from main, or dies.
ProcessEnds ==
    /\ gui.process = "running"
    /\ \E s \in {"NormalExit", "CrashExit"} :
          gui' = [gui EXCEPT !.process = IF s = "NormalExit" THEN "exited" ELSE "crashed",
                             !.finished = s]
    /\ GuiUnchanged

\* readyReadStandardOutput() reaches its slot.
ReadyReadStandardOutput ==
    /\ gui.outPipe > 0
    /\ gui' = updateProgressText([gui EXCEPT !.outPipe = @ - 1])
    /\ GuiUnchanged

\* readyReadStandardError() reaches its slot, which finds the text.
ReadyReadStandardError ==
    /\ gui.errPipe > 0
    /\ gui' = handleCanceledFEA([gui EXCEPT !.errPipe = @ - 1], TRUE)
    /\ GuiUnchanged

\* The user presses Abort on the progress dialog: canceled() reaches its
\* slot, and standard error holds nothing that was announced.
Canceled ==
    /\ gui.progress = "shown"
    /\ gui.process # "none"
    /\ gui' = handleCanceledFEA(gui, FALSE)
    /\ GuiUnchanged

\* finished(exitCode, exitStatus) reaches its slot; QProcess emits it after
\* the output that was left in the pipes has been announced.
Finished ==
    /\ gui.finished \in {"NormalExit", "CrashExit"}
    /\ gui.outPipe = 0
    /\ gui.errPipe = 0
    /\ gui' = handleFinishedFEA([gui EXCEPT !.finished = "emitted"], gui.finished)
    /\ GuiUnchanged

\* The user closes the message box on top; the slot that opened it goes on
\* with setEnabled(true).
CloseBox ==
    /\ gui.boxes # <<>>
    /\ gui' = [gui EXCEPT !.boxes = SubSeq(@, 1, Len(@) - 1), !.enabled = TRUE]
    /\ GuiUnchanged

GuiNext ==
    \/ Submit
    \/ ProcessStarts
    \/ ProcessWrites
    \/ ProcessEnds
    \/ ReadyReadStandardOutput
    \/ ReadyReadStandardError
    \/ Canceled
    \/ Finished
    \/ CloseBox

GuiSpec == GuiInit /\ [][GuiNext]_vars

\* The event loop delivers what is pending, the process starts or fails to,
\* and ends, and the user closes every message box; nobody has to press
\* Abort.
GuiFairSpec ==
    /\ GuiSpec
    /\ WF_vars(Submit)
    /\ WF_vars(ProcessStarts)
    /\ WF_vars(ProcessEnds)
    /\ WF_vars(ReadyReadStandardOutput)
    /\ WF_vars(ReadyReadStandardError)
    /\ WF_vars(Finished)
    /\ WF_vars(CloseBox)

(***************************************************************************)
(* The kernel driven directly: a caller that owns a GlobalStiffAssembler   *)
(* and a job calls calcKelem(i, job) and calcAelem(nx, ny) on it in any    *)
(* order, as the unit tests do.                                            *)
(***************************************************************************)
KernelInit ==
    /\ job \in Jobs \cup
          {Job(NodesFor(<<e>>), <<e>>) :
              e \in {Elem(0, 2, Props(NumOf(6), NumOf(4), NumOf(2), NumOf(3),
                                      Vec(2, 0, 0)))}}
    /\ BCs = <<>>
    /\ forces = <<>>
    /\ ties = <<>>
    /\ equations = <<>>
    /\ options = DefaultOptions
    /\ pc = "kernel"
    /\ proc = NoProcess
    /\ Elsewhere
    /\ Locals

CallCalcKelem ==
    /\ pc = "kernel"
    /\ \E i \in 0..(Len(job.elems) - 1) :
          /\ assembleK3D' = calcKelem(assembleK3D, i, job)
          /\ call' = [kelem |-> i, aelem |-> ElemAxes(i, job),
                      before |-> <<call.kelem, call.aelem>>]
    /\ UNCHANGED <<others, inputs, proc, pc, summary, Kg, force_vec, triplets, solver,
                   dispSparse, files>>

CallCalcAelem ==
    /\ pc = "kernel"
    /\ \E axes \in AxesCatalog :
          /\ assembleK3D' = calcAelem(assembleK3D, axes[1], axes[2])
          /\ call' = [call EXCEPT !.aelem = axes,
                                  !.before = <<call.kelem, call.aelem>>]
    /\ UNCHANGED <<others, inputs, proc, pc, summary, Kg, force_vec, triplets, solver,
                   dispSparse, files>>

KernelNext == CallCalcKelem \/ CallCalcAelem

KernelSpec == KernelInit /\ [][KernelNext]_vars

(***************************************************************************)
(* The assembler driven directly: a caller builds Kg of order 6 * |nodes|  *)
(* and calls assembleK3D(Kg, job, ties) once, or calls loadTies on an      *)
(* empty triplet list.                                                     *)
(***************************************************************************)
AssemblerInit ==
    /\ job \in Jobs
    /\ BCs = <<>>
    /\ forces = <<>>
    /\ ties \in Windows(TieCatalog, MaxTies)
    /\ equations = <<>>
    /\ options = DefaultOptions
    /\ pc = "assembler"
    /\ proc = NoProcess
    /\ Elsewhere
    /\ summary = NewSummary
    /\ Kg = SparseMat(NUM_DOFS * Len(job.nodes), NUM_DOFS * Len(job.nodes))
    /\ force_vec = SparseVec(0)
    /\ assembleK3D = NewAssembler
    /\ triplets = <<>>
    /\ solver = NewSolver
    /\ dispSparse = [rows |-> 0, cols |-> 0, values |-> <<>>]
    /\ files = {}
    /\ call = NoCall

CallAssemble ==
    /\ pc = "assembler"
    /\ \E r \in {Assemble(assembleK3D, Kg, job, ties)} :
          /\ assembleK3D' = r.asm
          /\ triplets' = r.triplets
          /\ Kg' = r.Kg
    /\ call' = [kelem |-> Len(job.elems) - 1,
                aelem |-> ElemAxes(Len(job.elems) - 1, job),
                before |-> IF Len(job.elems) > 1
                           THEN <<Len(job.elems) - 2, ElemAxes(Len(job.elems) - 2, job)>>
                           ELSE <<call.kelem, call.aelem>>]
    /\ pc' = "assembled"
    /\ UNCHANGED <<others, inputs, proc, summary, force_vec, solver, dispSparse, files>>

CallLoadTies ==
    /\ pc = "assembler"
    /\ triplets' = loadTies(triplets, ties)
    /\ pc' = "tied"
    /\ UNCHANGED <<others, inputs, proc, summary, Kg, force_vec, assembleK3D, solver, dispSparse,
                   files, call>>

AssemblerNext == CallAssemble \/ CallLoadTies

AssembleSpec == AssemblerInit /\ [][AssemblerNext]_vars

(***************************************************************************)
(* The claims.                                                             *)
(***************************************************************************)
\* The sum of the numbers f(x) for x in S.
RECURSIVE SumOver(_, _)
SumOver(f, S) ==
    IF S = {} THEN Zero
    ELSE LET x == CHOOSE y \in S : TRUE
         IN  NumAdd(f[x], SumOver(f, S \ {x}))

\* g(k) of an element with nodes n1, n2.
GlobalIndex(n1, n2, k) == IF k <= 5 THEN 6 * n1 + k ELSE 6 * n2 + (k - 6)

\* The rotated matrices of the elements of the job, each computed by a
\* fresh assembler.
RECURSIVE RotatedMatrices(_)
RotatedMatrices(n) ==
    IF n = 0 THEN <<>>
    ELSE Append(RotatedMatrices(n - 1), calcKelem(NewAssembler, n - 1, job).Kelem)

\* What element e (with rotated matrix Ke) contributes to the global entry (r, c).
ElemContribution(Ke, e, r, c) ==
    LET n1 == job.elems[e][1]
        n2 == job.elems[e][2]
        at == {lc \in Idx \X Idx : GlobalIndex(n1, n2, lc[1]) = r
                                   /\ GlobalIndex(n1, n2, lc[2]) = c}
    IN  SumOver([lc \in at |-> Ke[lc[1]][lc[2]]], at)

\* What tie t contributes to the global entry (r, c): +k on the diagonal at
\* both nodes, -k between them, for each dof j.
TieContribution(t, r, c) ==
    LET n1 == t.node_number_1
        n2 == t.node_number_2
        k(j) == IF j < 3 THEN t.lmult ELSE t.rmult
        plus  == {j \in 0..5 : (r = 6 * n1 + j /\ c = 6 * n1 + j)
                               \/ (r = 6 * n2 + j /\ c = 6 * n2 + j)}
        minus == {j \in 0..5 : (r = 6 * n1 + j /\ c = 6 * n2 + j)
                               \/ (r = 6 * n2 + j /\ c = 6 * n1 + j)}
    IN  NumAdd(SumOver([j \in plus |-> k(j)], plus),
               SumOver([j \in minus |-> NumNeg(k(j))], minus))

ExpectedEntry(Ks, r, c) ==
    NumAdd(SumOver([e \in 1..Len(job.elems) |-> ElemContribution(Ks[e], e, r, c)],
                   1..Len(job.elems)),
           SumOver([i \in 1..Len(ties) |-> TieContribution(ties[i], r, c)],
                   1..Len(ties)))

\* C1: after assembleK3D(Kg, job, ties) every entry of Kg is the sum of the
\* entries of the elements' rotated matrices mapped to it by g and of the
\* ties' spring entries, and no stored coordinate lies outside the leading
\* 6 * |nodes| rows and columns.
C1_ScatterSums ==
    pc = "assembled" =>
        LET Ks == RotatedMatrices(Len(job.elems))
            M  == 6 * Len(job.nodes)
        IN  /\ \A r \in 0..(Kg.rows - 1), c \in 0..(Kg.cols - 1) :
                   Coeff(Kg, r, c) = ExpectedEntry(Ks, r, c)
            /\ \A rc \in DOMAIN Kg.coeff :
                   rc[1] \in 0..(M - 1) /\ rc[2] \in 0..(M - 1)

\* C1 witness: two elements that share a node and a tie have been assembled,
\* and an entry of the shared node's block is stored.
C1_Witness ==
    /\ pc = "assembled"
    /\ Len(job.elems) = 2
    /\ job.elems[1][2] = job.elems[2][1]
    /\ Len(ties) > 0
    /\ Coeff(Kg, 6 * job.elems[1][2], 6 * job.elems[1][2]) # Zero

\* M = 6 * |nodes|, the first row of the Lagrange multipliers.
MultiplierBase == 6 * Len(job.nodes)

\* C2: after loadBCs, for BC i on (node n, dof d) with value v, Kg has 1 at
\* (M + i, 6n + d) and at (6n + d, M + i), row and column M + i store nothing
\* else, and the right-hand side has v at M + i.
C2_BCRows ==
    pc = "loadForces" =>
        \A i \in 0..(Len(BCs) - 1) :
            LET bc  == BCs[i + 1]
                idx == 6 * bc.node + bc.dof
                row == MultiplierBase + i
            IN  /\ Coeff(Kg, row, idx) = One
                /\ Coeff(Kg, idx, row) = One
                /\ \A rc \in DOMAIN Kg.coeff :
                       /\ (rc[1] = row /\ rc[2] # idx) => Kg.coeff[rc] = Zero
                       /\ (rc[2] = row /\ rc[1] # idx) => Kg.coeff[rc] = Zero
                /\ Dense(force_vec, row) = bc.value

\* C3: the matrix and the right-hand side that solve hands to the solver have
\* order 6 * |nodes| + |BCs| + |equations|.
C3_SystemOrder ==
    pc \in {"analyze", "factorize", "solve"} =>
        LET N == 6 * Len(job.nodes) + Len(BCs) + Len(equations)
        IN  Kg.rows = N /\ Kg.cols = N /\ force_vec.rows = N

\* C4: in the system that solve hands to the solver, equation e has the
\* coefficient of each of its terms at (r, 6 n_k + d_k) and at
\* (6 n_k + d_k, r), with r = 6 * |nodes| + |BCs| + e, and 0 on the right.
C4_EquationRows ==
    pc = "analyze" =>
        \A e \in 0..(Len(equations) - 1) :
            LET r == MultiplierBase + Len(BCs) + e
                terms == equations[e + 1].terms
            IN  /\ \A k \in 1..Len(terms) :
                       LET idx == 6 * terms[k].node_number + terms[k].dof
                       IN  /\ Coeff(Kg, r, idx) = terms[k].coefficient
                           /\ Coeff(Kg, idx, r) = terms[k].coefficient
                /\ Dense(force_vec, r) = Zero

\* The four triplets of a tie's dof j.
TieBlock(t, j) ==
    LET n1 == t.node_number_1
        n2 == t.node_number_2
        k  == IF j < 3 THEN t.lmult ELSE t.rmult
    IN  {<<6 * n1 + j, 6 * n1 + j, k>>, <<6 * n2 + j, 6 * n2 + j, k>>,
         <<6 * n1 + j, 6 * n2 + j, NumNeg(k)>>, <<6 * n2 + j, 6 * n1 + j, NumNeg(k)>>}

\* C5: loadTies appends 24 triplets per tie, for each dof j the four of the
\* spring block (k_lin for j < 3, else k_rot), and nothing else: called on an
\* empty list it leaves exactly these, and in the assembler they are the
\* last 24 * |ties| triplets.
C5_TieTriplets ==
    pc \in {"tied", "assembled"} =>
        LET off == Len(triplets) - 24 * Len(ties)
        IN  /\ off >= 0
            /\ pc = "tied" => off = 0
            /\ \A i \in 1..Len(ties), j \in 0..5 :
                   {triplets[off + 24 * (i - 1) + 4 * j + m] : m \in 1..4}
                       = TieBlock(ties[i], j)

\* C5 witness: loadTies has run on two ties whose constants differ.
C5_Witness ==
    /\ pc = "tied"
    /\ Len(ties) = 2
    /\ ties[1].lmult # ties[1].rmult
    /\ Len(triplets) = 48

\* The forces that address (node n, dof d), by position in the list.
ForcesAt(n, d) == {k \in 1..Len(forces) : forces[k].node = n /\ forces[k].dof = d}

\* C6: after loadForces the right-hand side has, at 6n + d, the value of the
\* last force of the list on (n, d), and 0 where no force is.
C6_LastForceWins ==
    pc = "compress" =>
        \A n \in 0..(Len(job.nodes) - 1), d \in 0..5 :
            LET at == ForcesAt(n, d)
            IN  Dense(force_vec, 6 * n + d)
                    = IF at = {} THEN Zero
                      ELSE forces[CHOOSE k \in at : \A m \in at : m <= k].value

\* C6 witness: loadForces has run on two forces on one (node, dof) with
\* different values.
C6_Witness ==
    /\ pc = "compress"
    /\ \E k, m \in 1..Len(forces) :
           /\ k < m
           /\ forces[k].node = forces[m].node
           /\ forces[k].dof = forces[m].dof
           /\ forces[k].value # forces[m].value

\* The entries of the local stiffness as the specification lists them.
ListedKlocal(EA, EIz, EIy, GJ, L) ==
    LET a  == NumDiv(EA, L)
        t  == NumDiv(GJ, L)
        L2 == NumMul(L, L)
        L3 == NumMul(L2, L)
        z3 == NumDiv(NumMul(NumOf(12), EIz), L3)
        z2 == NumDiv(NumMul(NumOf(6), EIz), L2)
        z1 == NumDiv(EIz, L)
        y3 == NumDiv(NumMul(NumOf(12), EIy), L3)
        y2 == NumDiv(NumMul(NumOf(6), EIy), L2)
        y1 == NumDiv(EIy, L)
        Sym(i, j, v) == (<<i, j>> :> v) @@ (<<j, i>> :> v)
    IN  (<<0, 0>> :> a) @@ (<<6, 6>> :> a) @@ Sym(0, 6, NumNeg(a)) @@
        (<<3, 3>> :> t) @@ (<<9, 9>> :> t) @@ Sym(3, 9, NumNeg(t)) @@
        (<<1, 1>> :> z3) @@ (<<7, 7>> :> z3) @@ Sym(1, 7, NumNeg(z3)) @@
        Sym(1, 5, z2) @@ Sym(1, 11, z2) @@
        Sym(5, 7, NumNeg(z2)) @@ Sym(7, 11, NumNeg(z2)) @@
        (<<5, 5>> :> NumMul(NumOf(4), z1)) @@ (<<11, 11>> :> NumMul(NumOf(4), z1)) @@
        Sym(5, 11, NumMul(NumOf(2), z1)) @@
        (<<2, 2>> :> y3) @@ (<<8, 8>> :> y3) @@ Sym(2, 8, NumNeg(y3)) @@
        Sym(2, 4, NumNeg(y2)) @@ Sym(2, 10, NumNeg(y2)) @@
        Sym(4, 8, y2) @@ Sym(8, 10, y2) @@
        (<<4, 4>> :> NumMul(NumOf(4), y1)) @@ (<<10, 10>> :> NumMul(NumOf(4), y1)) @@
        Sym(4, 10, NumMul(NumOf(2), y1))

\* The length of element e of the job (counted from 1).
ElemLength(e) ==
    VecNorm(VecSub(job.nodes[job.elems[e][2] + 1], job.nodes[job.elems[e][1] + 1]))

\* C7: after calcKelem(i, job) the local stiffness is symmetric, has the
\* listed values at the 40 listed positions and zero everywhere else.
C7_LocalStiffness ==
    call.kelem >= 0 =>
        LET e      == call.kelem + 1
            p      == job.props[e]
            listed == ListedKlocal(p.EA, p.EIz, p.EIy, p.GJ, ElemLength(e))
            Kl     == assembleK3D.Klocal
        IN  /\ Cardinality(DOMAIN listed) = 40
            /\ \A i, j \in Idx :
                   /\ Kl[i][j] = Kl[j][i]
                   /\ Kl[i][j] = IF <<i, j>> \in DOMAIN listed
                                 THEN listed[<<i, j>>] ELSE Zero

\* C7 witness: calcKelem has run on an element whose length is not 1 and
\* whose two bending stiffnesses differ.
C7_Witness ==
    /\ pc = "kernel"
    /\ call.kelem >= 0
    /\ ElemLength(call.kelem + 1) # One
    /\ job.props[call.kelem + 1].EIz # job.props[call.kelem + 1].EIy
    /\ assembleK3D.Klocal[2][4] # Zero

\* C8: after assembly of elements and ties the global stiffness is
\* symmetric on the rows and columns of the nodes.
C8_GlobalSymmetry ==
    pc = "assembled" =>
        \A r, c \in 0..(6 * Len(job.nodes) - 1) : Coeff(Kg, r, c) = Coeff(Kg, c, r)

\* C8 witness: a rotated element and a tie have been assembled and Kg stores
\* a coefficient off the diagonal.
C8_Witness ==
    /\ pc = "assembled"
    /\ Len(ties) > 0
    /\ assembleK3D.Aelem[0][1] # Zero
    /\ \E rc \in DOMAIN Kg.coeff : rc[1] # rc[2] /\ Kg.coeff[rc] # Zero

Transpose(M) == [i \in Idx |-> [j \in Idx |-> M[j][i]]]
Identity12 == [i \in Idx |-> [j \in Idx |-> IF i = j THEN One ELSE Zero]]
IsUnit(v) == squaredNorm(v) = One
Collinear(u, v) == Cross(u, v) = <<Zero, Zero, Zero>>
Perpendicular(u, v) == Dot(u, v) = Zero

\* R^T R = I for the rotation matrix the assembler holds.
RotationOrthogonal ==
    MatMul(Transpose(assembleK3D.Aelem), assembleK3D.Aelem) = Identity12

\* C9 as stated: after calcAelem(nx, ny), AelemT is the transpose of Aelem,
\* Aelem is the identity for nx = (1,0,0), ny = (0,1,0), and R^T R = I for
\* every unit normal ny that is not collinear with the axis nx.
C9_RotationAnyNormal ==
    call.aelem # <<>> =>
        LET nx == call.aelem[1]
            ny == call.aelem[2]
        IN  /\ assembleK3D.AelemT = Transpose(assembleK3D.Aelem)
            /\ (nx = Vec(1, 0, 0) /\ ny = Vec(0, 1, 0))
                   => assembleK3D.Aelem = Identity12
            /\ (IsUnit(nx) /\ IsUnit(ny) /\ ~Collinear(nx, ny)) => RotationOrthogonal

\* C9 as amended: the same, with R^T R = I for every unit normal ny that is
\* perpendicular to the axis nx.
C9_RotationPerpendicularNormal ==
    call.aelem # <<>> =>
        LET nx == call.aelem[1]
            ny == call.aelem[2]
        IN  /\ assembleK3D.AelemT = Transpose(assembleK3D.Aelem)
            /\ (nx = Vec(1, 0, 0) /\ ny = Vec(0, 1, 0))
                   => assembleK3D.Aelem = Identity12
            /\ (IsUnit(nx) /\ IsUnit(ny) /\ Perpendicular(nx, ny)) => RotationOrthogonal

\* C9 witness: calcAelem has run on an axis that is not a coordinate axis
\* with a perpendicular unit normal, and the rotation is not the identity.
C9_Witness ==
    /\ call.aelem # <<>>
    /\ call.aelem[1][1] # Zero /\ call.aelem[1][2] # Zero
    /\ IsUnit(call.aelem[2])
    /\ Perpendicular(call.aelem[1], call.aelem[2])
    /\ assembleK3D.Aelem # Identity12
    /\ assembleK3D.Aelem[2][2] # Zero

\* The statements of solve in the order of the text, and the phase each
\* belongs to: 0 builds the system (it ends in Built), 1 is analysis and
\* factorization (Factored), 2 the solve and the extraction (Solved), 3 the
\* saving and the report (Reported), 4 is the return after the report.
StatementOrder ==
    <<"begin", "assemble", "loadBCs", "loadForces", "compress", "analyze",
      "factorize", "solve", "extract", "save", "report", "done">>
PositionOf(p) == CHOOSE k \in 1..Len(StatementOrder) : StatementOrder[k] = p
PhaseOf(p) ==
    CASE p \in {"begin", "assemble", "loadBCs", "loadForces", "compress"} -> 0
      [] p \in {"analyze", "factorize"} -> 1
      [] p \in {"solve", "extract"} -> 2
      [] p \in {"save", "report"} -> 3
      [] p = "done" -> 4

\* A step of solve goes to the next statement or to the error state, so no
\* phase is repeated or skipped.
OrderedStep ==
    /\ pc \notin {"done", "error"}
    /\ \/ pc' = "error"
       \/ /\ PositionOf(pc') = PositionOf(pc) + 1
          /\ PhaseOf(pc') \in {PhaseOf(pc), PhaseOf(pc) + 1}

\* What a phase leaves behind is there when the next one runs, and not before.
PhaseData ==
    pc # "error" =>
        /\ solver.analyzed => PhaseOf(pc) >= 1
        /\ PhaseOf(pc) >= 1 => (Kg.compressed /\ triplets # <<>>)
        /\ solver.factorized <=> PhaseOf(pc) >= 2
        /\ solver.factorized => solver.analyzed
        /\ dispSparse.rows > 0 => solver.factorized
        /\ summary.nodal_displacements # <<>> <=> PhaseOf(pc) >= 3
        /\ summary.nodal_forces # <<>> <=> PhaseOf(pc) >= 3
        /\ files # {} => PhaseOf(pc) >= 3

C11_SolverFailureIsError ==
    solver.info = "NumericalIssue" =>
        /\ pc \in {"solve", "error"}
        /\ summary.nodal_displacements = <<>>
        /\ summary.nodal_forces = <<>>
        /\ files = {}

\* C12: after calcKelem on an element whose reference normal is parallel to
\* its axis (nx x ny = 0) the kernel is in the error state: it has produced
\* no rotation matrix and no element stiffness.
C12_ParallelNormalIsError ==
    (call.kelem >= 0 /\ Collinear(call.aelem[1], call.aelem[2])) => pc = "error"

\* An index of the call is out of range: a node number of an element, a
\* boundary condition, a force or a tie that is no node of the job, or a dof
\* of a boundary condition or a force outside 0..5.
IndexOutOfRange ==
    LET BadNode(n) == n < 0 \/ n >= Len(job.nodes)
        BadDof(d)  == d \notin 0..5
    IN  \/ \E i \in 1..Len(job.elems) : BadNode(job.elems[i][1]) \/ BadNode(job.elems[i][2])
        \/ \E i \in 1..Len(BCs) : BadNode(BCs[i].node) \/ BadDof(BCs[i].dof)
        \/ \E i \in 1..Len(forces) : BadNode(forces[i].node) \/ BadDof(forces[i].dof)
        \/ \E i \in 1..Len(ties) :
               BadNode(ties[i].node_number_1) \/ BadNode(ties[i].node_number_2)

\* C13: a call of solve with an index out of range is rejected: it is in the
\* error state before the system goes to the solver, and it has written
\* nothing at a row or a column beyond the order of the system.
C13_DomainViolationRejected ==
    /\ IndexOutOfRange =>
           pc \in {"begin", "assemble", "loadBCs", "loadForces", "error"}
    /\ \A rc \in DOMAIN Kg.coeff : rc[1] < Kg.rows /\ rc[2] < Kg.cols
    /\ \A k \in 1..Len(force_vec.entries) : force_vec.entries[k][1] < force_vec.rows

\* The entries (node i, dof j), both counted from 1, of a result table.
NodeDofs == (1..Len(job.nodes)) \X (1..NUM_DOFS)

\* Entry (i, j) of the solution and of Kg * dispSparse, before rounding;
\* after the extraction Kg is the block of the nodes.
SolutionAt(i, j) == dispSparse.values[NUM_DOFS * (i - 1) + j]
ProductAt(i, j) == RowTimes(Kg, dispSparse.values, NUM_DOFS * (i - 1) + j - 1, 0)

\* |v| < options.epsilon
BelowEpsilon(v) == NumGt(options.epsilon, NumAbs(v))

\* C14: once the results are extracted, nodal_displacements[i][j] is 0 when
\* |x[6i + j]| < options.epsilon and is x[6i + j] otherwise, nodal_forces is
\* rounded from Kg * x by the same rule, and no reported entry is nonzero
\* with a magnitude below epsilon.
C14_RoundingRule ==
    pc \in {"save", "report", "done"} =>
        \A ij \in NodeDofs :
            LET x == SolutionAt(ij[1], ij[2])
                r == ProductAt(ij[1], ij[2])
                u == summary.nodal_displacements[ij[1]][ij[2]]
                f == summary.nodal_forces[ij[1]][ij[2]]
            IN  /\ u = IF BelowEpsilon(x) THEN Zero ELSE x
                /\ f = IF BelowEpsilon(r) THEN Zero ELSE r
                /\ u # Zero => ~BelowEpsilon(u)
                /\ f # Zero => ~BelowEpsilon(f)

\* C14 witness: a solved system has a nonzero displacement below epsilon,
\* reported as 0, a displacement above it, reported as it is, and the same
\* for two entries of the nodal forces.
C14_Witness ==
    /\ pc = "done"
    /\ solver.info = "Success"
    /\ \E ij \in NodeDofs :
           /\ SolutionAt(ij[1], ij[2]) # Zero
           /\ BelowEpsilon(SolutionAt(ij[1], ij[2]))
           /\ summary.nodal_displacements[ij[1]][ij[2]] = Zero
    /\ \E ij \in NodeDofs :
           /\ ~BelowEpsilon(SolutionAt(ij[1], ij[2]))
           /\ summary.nodal_displacements[ij[1]][ij[2]] = SolutionAt(ij[1], ij[2])
    /\ \E ij \in NodeDofs :
           /\ ProductAt(ij[1], ij[2]) # Zero
           /\ BelowEpsilon(ProductAt(ij[1], ij[2]))
           /\ summary.nodal_forces[ij[1]][ij[2]] = Zero
    /\ \E ij \in NodeDofs :
           /\ ~BelowEpsilon(ProductAt(ij[1], ij[2]))
           /\ summary.nodal_forces[ij[1]][ij[2]] = ProductAt(ij[1], ij[2])

\* A table of n rows of six columns.
HasShape(table, n) ==
    /\ Len(table) = n
    /\ \A i \in 1..n : Len(table[i]) = NUM_DOFS

ElementAndTieStiffness ==
    setFromTriplets(SparseMat(NUM_DOFS * Len(job.nodes), NUM_DOFS * Len(job.nodes)),
                    triplets)

\* Entry (i, j) of K_free * u, K_free taken from the triplets.
FreeProductAt(K, i, j) == RowTimes(K, dispSparse.values, NUM_DOFS * (i - 1) + j - 1, 0)

\* A boundary condition addresses dof j of node i (both from 1).
Constrained(i, j) == \E k \in 1..Len(BCs) : BCs[k].node = i - 1 /\ BCs[k].dof = j - 1

\* The nodal force applied at dof j of node i: the last of the list there.
AppliedForce(i, j) ==
    LET at == ForcesAt(i - 1, j - 1)
    IN  IF at = {} THEN Zero ELSE forces[CHOOSE k \in at : \A m \in at : m <= k].value

\* The reported nodal forces are K_free * u, rounded, K_free the block of
\* the nodes of Kg and that the stiffness of the elements and ties alone.
ReportedIsKu(K) ==
    /\ Kg.rows = K.rows /\ Kg.cols = K.cols
    /\ \A r \in 0..(K.rows - 1), c \in 0..(K.cols - 1) : Coeff(Kg, r, c) = Coeff(K, r, c)
    /\ \A ij \in NodeDofs :
           summary.nodal_forces[ij[1]][ij[2]]
               = RoundSmall(FreeProductAt(K, ij[1], ij[2]), options.epsilon)

\* C16 as stated: after a successful solve the reported nodal forces are
\* K_free * u, and at every dof that no boundary condition addresses the
\* reported nodal force is zero, also where a nodal force is applied.
C16_FreeDofsReportZero ==
    (pc \in {"save", "report", "done"} /\ solver.info = "Success") =>
        /\ ReportedIsKu(ElementAndTieStiffness)
        /\ \A ij \in NodeDofs :
               ~Constrained(ij[1], ij[2]) => summary.nodal_forces[ij[1]][ij[2]] = Zero

\* C16 as amended: the same, with the reported nodal force at a dof that no
\* boundary condition addresses equal to the nodal force applied there,
\* rounded, which is zero where none is applied.
C16_FreeDofsReportApplied ==
    (pc \in {"save", "report", "done"} /\ solver.info = "Success") =>
        /\ ReportedIsKu(ElementAndTieStiffness)
        /\ \A ij \in NodeDofs :
               ~Constrained(ij[1], ij[2]) =>
                   summary.nodal_forces[ij[1]][ij[2]]
                       = RoundSmall(AppliedForce(ij[1], ij[2]), options.epsilon)

\* C16 witness: a solved system with ties reports the force applied at a
\* free dof there, a reaction at a constrained dof, and zero at a free dof
\* without force.
C16_Witness ==
    /\ pc = "done"
    /\ solver.info = "Success"
    /\ Len(ties) > 0
    /\ \E ij \in NodeDofs :
           /\ ~Constrained(ij[1], ij[2])
           /\ AppliedForce(ij[1], ij[2]) # Zero
           /\ summary.nodal_forces[ij[1]][ij[2]] = AppliedForce(ij[1], ij[2])
    /\ \E ij \in NodeDofs :
           /\ Constrained(ij[1], ij[2])
           /\ summary.nodal_forces[ij[1]][ij[2]] # Zero
    /\ \E ij \in NodeDofs :
           /\ ~Constrained(ij[1], ij[2])
           /\ AppliedForce(ij[1], ij[2]) = Zero
           /\ summary.nodal_forces[ij[1]][ij[2]] = Zero

\* The ties with the two nodes of each exchanged.
SwappedTies ==
    [i \in 1..Len(ties) |->
        Tie(ties[i].node_number_2, ties[i].node_number_1, ties[i].lmult, ties[i].rmult)]

\* C17: the tie forces solve stores are, for tie t and dof j,
\* k(j) * (u[n2][j] - u[n1][j]) with k(j) the linear constant for j < 3 and
\* the rotational one otherwise, u the displacement table computeTieForces
\* was given; on the ties with n1 and n2 exchanged computeTieForces returns
\* the negative of every component.
C17_TieForces ==
    (pc \in {"save", "report", "done"} /\ Len(ties) > 0) =>
        LET u == summary.nodal_displacements
            swapped == computeTieForces(SwappedTies, u)
        IN  \A t \in 1..Len(ties), j \in 0..5 :
                LET k  == IF j < 3 THEN ties[t].lmult ELSE ties[t].rmult
                    u1 == u[ties[t].node_number_1 + 1][j + 1]
                    u2 == u[ties[t].node_number_2 + 1][j + 1]
                IN  /\ summary.tie_forces[t][j + 1] = NumMul(k, NumSub(u2, u1))
                    /\ swapped[t][j + 1] = NumNeg(summary.tie_forces[t][j + 1])

\* C17 witness: solve has computed the forces of two ties whose constants
\* differ, with a nonzero force in a translation and in a rotation.
C17_Witness ==
    /\ pc = "done"
    /\ solver.info = "Success"
    /\ Len(ties) = 2
    /\ ties[1].lmult # ties[1].rmult
    /\ \E j \in 1..3 : summary.tie_forces[1][j] # Zero
    /\ \E j \in 4..6 : summary.tie_forces[1][j] # Zero
    /\ \E j \in 1..6 : summary.tie_forces[2][j] # Zero

\* C18: the summary solve returns has the counts of the six input
\* collections: nodes, elements, boundary conditions, forces, ties and
\* equations.
C18_SummaryCounts ==
    pc = "done" =>
        /\ summary.num_nodes = Len(job.nodes)
        /\ summary.num_elems = Len(job.elems)
        /\ summary.num_bcs = Len(BCs)
        /\ summary.num_forces = Len(forces)
        /\ summary.num_ties = Len(ties)
        /\ summary.num_eqns = Len(equations)

\* The analysis of the process succeeded: the arguments were accepted, the
\* configuration was read, and solve returned the results of a system that
\* the solver factorized.
AnalysisSucceeded == pc = "done" /\ solver.info = "Success"

\* C19: the process ends with status 0 only when the analysis succeeded, and
\* otherwise with a nonzero status and a diagnostic on the standard error
\* stream.
C19_ExitStatus ==
    proc.at = "exited" =>
        /\ proc.status = 0 <=> AnalysisSucceeded
        /\ proc.status # 0 => proc.diagnostic

\* The defaults of the options as the claim lists them.
ListedDefaults ==
    [epsilon |-> <<45, 1, -52>>, csv_precision |-> 14, csv_delimiter |-> ",",
     save_nodal_displacements |-> FALSE, save_nodal_forces |-> FALSE,
     save_tie_forces |-> FALSE, verbose |-> FALSE, save_report |-> FALSE,
     nodal_displacements_filename |-> "nodal_displacements.csv",
     nodal_forces_filename |-> "nodal_forces.csv",
     tie_forces_filename |-> "tie_forces.csv",
     report_filename |-> "report.txt"]

\* The value a JSON value stands for.
Written(v) ==
    CASE v.type = "Number" -> Frac(v.digits, Pow10(-v.exp10))
      [] v.type = "Bool" -> v.bool
      [] OTHER -> v.value

\* C20: the options createOptionsFromJSON has returned are the defaults when
\* the document has no options member; otherwise every field whose key the
\* member has is the value given there (csv_precision as an integer), every
\* other field is at its default, and keys that are no field change nothing.
C20_OptionsFromJSON ==
    proc.at = "solve" =>
        LET doc == proc.config_doc
        IN  /\ DOMAIN options = DOMAIN ListedDefaults
            /\ ~HasMember(doc, "options") => options = ListedDefaults
            /\ HasMember(doc, "options") =>
                   LET given == doc.members["options"].members
                   IN  \A key \in DOMAIN ListedDefaults :
                           options[key] =
                               IF key \notin DOMAIN given THEN ListedDefaults[key]
                               ELSE IF key = "csv_precision" THEN given[key].digits
                               ELSE Written(given[key])

\* C20 witness: createOptionsFromJSON has read an options member that sets
\* some fields, leaves others out and has a key that is no field.
C20_Witness ==
    /\ proc.at = "solve"
    /\ HasMember(proc.config_doc, "options")
    /\ "colour" \in DOMAIN proc.config_doc.members["options"].members
    /\ "csv_precision" \notin DOMAIN proc.config_doc.members["options"].members
    /\ options.epsilon = Frac(1, 8)
    /\ options.save_report
    /\ options.report_filename = "free.txt"
    /\ options.csv_precision = 14
    /\ ~options.verbose

(***************************************************************************)
(* The loaders: wrong types, wrong shapes, words and the round trip        *)
(***************************************************************************)
\* The create...VecFromJSON calls and the members each one reads.
VecMembers ==
    [nodes |-> {"nodes"}, elems |-> {"elems", "props"}, bcs |-> {"bcs"},
     forces |-> {"forces"}, ties |-> {"ties"}]

\* A value of the options member of doc has not the JSON type of its key
\* (csv_precision is an unsigned integer), or the member is no object.
MistypedOptions(doc) ==
    /\ HasMember(doc, "options")
    /\ IF doc.members["options"].type # "Object" THEN TRUE
       ELSE LET given == doc.members["options"].members
            IN  \E key \in DOMAIN given \cap DOMAIN ListedDefaults :
                    \/ given[key].type
                           # (CASE key \in {"epsilon", "csv_precision"} -> "Number"
                               [] ListedDefaults[key] \in BOOLEAN -> "Bool"
                               [] OTHER -> "String")
                    \/ key = "csv_precision" /\ given[key].exp10 # 0

\* C21: a call of createOptionsFromJSON on a document with a mistyped option
\* throws and returns no Options, and a call of a create...VecFromJSON
\* function on a document in which a member it reads is no string throws
\* and returns no list.
C21_MistypedIsError ==
    /\ csv.at = "options" /\ MistypedOptions(csv.doc) => csv.result.thrown
    /\ csv.at \in DOMAIN VecMembers
          /\ (\E name \in VecMembers[csv.at] \cap DOMAIN csv.doc.members :
                  csv.doc.members[name].type # "String")
          => csv.result.thrown /\ csv.result.data = <<>>

\* The width create...VecFromJSON expects of the rows of a member's table.
RowWidth == [nodes |-> 3, elems |-> 2, props |-> 7, bcs |-> 3, forces |-> 3, ties |-> 4]

\* The table of a member of the document of the last call: the rows of the
\* file it names.
TableOf(name) == parseToVector(disk, csv.doc.members[name].value).data

\* The rows, counted from 0, that have not the width of their table.
OffendingRows(name) ==
    {i - 1 : i \in {k \in 1..Len(TableOf(name)) : Len(TableOf(name)[k]) # RowWidth[name]}}

\* The last call was a create...VecFromJSON on a document whose members name
\* files.
CreatedFromFiles ==
    /\ csv.at \in DOMAIN VecMembers
    /\ \A name \in VecMembers[csv.at] :
           /\ name \in DOMAIN csv.doc.members
           /\ csv.doc.members[name].type = "String"

\* C22: a create...VecFromJSON call on a table without rows, on elems and
\* props of different numbers of rows or on a table with a row of another
\* width than the function expects throws and returns no list; when it
\* throws for a row, it names the first offending row.
C22_ShapeRejected ==
    CreatedFromFiles =>
        LET names == VecMembers[csv.at]
            empty == \E name \in names : Len(TableOf(name)) = 0
            uneven == csv.at = "elems" /\ Len(TableOf("elems")) # Len(TableOf("props"))
            rows == UNION {OffendingRows(name) : name \in names}
        IN  /\ empty \/ uneven \/ rows # {}
                => csv.result.thrown /\ csv.result.data = <<>>
            /\ ~empty /\ ~uneven /\ rows # {}
                => csv.result.row \in rows /\ \A i \in rows : csv.result.row <= i
            /\ ~empty /\ ~uneven /\ rows = {}
                => ~csv.result.thrown /\ Len(csv.result.data) = Len(TableOf(csv.at))

\* C22 witness: createNodeVecFromJSON has thrown for the second row of a
\* table whose first row is complete.
C22_Witness ==
    /\ CreatedFromFiles
    /\ csv.at = "nodes"
    /\ Len(TableOf("nodes")) = 2
    /\ OffendingRows("nodes") = {1}
    /\ csv.result.thrown
    /\ csv.result.row = 1

\* A token of the text has a character that no number has.
HasWord(text) ==
    \E i \in 1..Len(text) :
        text[i] \notin {"0", "1", "2", "3", "4", "5", "6", "7", "8", "9", ".", "-", "+",
                        ",", " ", "\t", "\n"}

\* C23: parseToVector on a file with a token that is no number throws.
C23_WordRejected ==
    /\ csv.at = "parseToVector"
    /\ csv.filename \in DOMAIN disk
    /\ HasWord(disk[csv.filename])
    => csv.result.thrown

\* C24: parseToVector on the file the last write has written returns the
\* table written, for every separator of commas, blanks and tabs.
C24_RoundTrip ==
    /\ csv.at = "parseToVector"
    /\ csv.filename = "out.csv"
    /\ csv.written # <<>>
    /\ \A k \in 1..Len(csv.written.delimiter) :
           csv.written.delimiter[k] \in {",", " ", "\t"}
    => ~csv.result.thrown /\ csv.result.data = csv.written.data

(***************************************************************************)
(* Two calls of solve beside each other                                    *)
(***************************************************************************)
\* C25: when two calls of solve that ran beside each other have returned,
\* every file that one of them has saved holds the text that call writes
\* when it runs alone, and each call has the summary it computed.
C25_RaceFree ==
    (\A i \in DOMAIN calls : calls[i].pc = "done")
        => \A i \in DOMAIN calls :
               \A k \in 1..Len(Saves(calls[i])) :
                   disk[Saves(calls[i])[k].name] = Saves(calls[i])[k].text

(***************************************************************************)
(* The local z row of the rotation                                         *)
(***************************************************************************)
\* C26: after calcAelem(nx, ny) with unit nx and a unit ny that is not
\* collinear with nx, the third row of each 3x3 block of Aelem is nx x ny
\* scaled to length 1: it has squared norm 1, is parallel to nx x ny and
\* points the same way.
C26_LocalZUnit ==
    (/\ call.aelem # <<>>
     /\ IsUnit(call.aelem[1])
     /\ IsUnit(call.aelem[2])
     /\ ~Collinear(call.aelem[1], call.aelem[2]))
        => \A b \in 0..3 :
               LET z == <<assembleK3D.Aelem[3 * b + 2][3 * b],
                          assembleK3D.Aelem[3 * b + 2][3 * b + 1],
                          assembleK3D.Aelem[3 * b + 2][3 * b + 2]>>
                   n == Cross(call.aelem[1], call.aelem[2])
               IN  /\ IsUnit(z)
                   /\ Collinear(z, n)
                   /\ NumGt(Dot(z, n), Zero)

(***************************************************************************)
(* Two boundary conditions on one degree of freedom                        *)
(***************************************************************************)
\* C27: after loadBCs, two boundary conditions at the list positions i and
\* j that address the same (node n, dof d) have their own multiplier rows
\* M + i and M + j, each with 1 at column 6n + d and at the mirrored
\* place and nothing else, and the right-hand side holds the value of
\* each at its own row.
C27_DuplicateBCRows ==
    pc = "loadForces" =>
        \A i, j \in 0..(Len(BCs) - 1) :
            (/\ i # j
             /\ BCs[i + 1].node = BCs[j + 1].node
             /\ BCs[i + 1].dof = BCs[j + 1].dof)
                => LET idx == 6 * BCs[i + 1].node + BCs[i + 1].dof
                       row == MultiplierBase + i
                   IN  /\ Coeff(Kg, row, idx) = One
                       /\ Coeff(Kg, idx, row) = One
                       /\ \A rc \in DOMAIN Kg.coeff :
                              /\ (rc[1] = row /\ rc[2] # idx) => Kg.coeff[rc] = Zero
                              /\ (rc[2] = row /\ rc[1] # idx) => Kg.coeff[rc] = Zero
                       /\ Dense(force_vec, row) = BCs[i + 1].value

(***************************************************************************)
(* One assembler for many elements                                         *)
(***************************************************************************)
\* C28: whatever was called on the assembler before, when the last call of
\* calcKelem was for element i and the rotation is still that of element
\* i, Kelem, Klocal, Aelem and AelemT are those that calcKelem(i, job)
\* leaves in an assembler that was just constructed.
C28_NoStaleState ==
    (call.kelem # -1 /\ call.aelem = ElemAxes(call.kelem, job))
        => \E fresh \in {calcKelem(NewAssembler, call.kelem, job)} :
               /\ assembleK3D.Kelem = fresh.Kelem
               /\ assembleK3D.Klocal = fresh.Klocal
               /\ assembleK3D.Aelem = fresh.Aelem
               /\ assembleK3D.AelemT = fresh.AelemT

\* C28 witness: calcKelem has just run on an assembler that held another
\* element's matrices and a rotation that was set by hand.
C28_Witness ==
    /\ pc = "kernel"
    /\ call.kelem # -1
    /\ call.before[1] # -1
    /\ call.before[1] # call.kelem
    /\ call.before[2] # ElemAxes(call.before[1], job)
    /\ call.before[2] # call.aelem
    /\ call.aelem = ElemAxes(call.kelem, job)
    /\ assembleK3D.Kelem # NewAssembler.Kelem

(***************************************************************************)
(* The main window                                                         *)
(***************************************************************************)
\* C29: once submit() has disabled the main window, the window is enabled
\* again at some later time, on every execution.
C29_EventuallyEnabled ==
    (gui.at = "submitted" /\ ~gui.enabled) ~> gui.enabled

\* C30: for one submission the progress dialog is deleted at most once and
\* no statement uses it after its deletion.
C30_DeletedOnce ==
    gui.at = "submitted" => (gui.deletes <= 1 /\ ~gui.usedDeleted)

====
